---- MODULE Spec2Model ----
(***************************************************************************)
(* A model of the crypto_news pipeline: keyword prefilter, relevance and   *)
(* impact oracles, the deduplication ledger with its 30-day retention,     *)
(* message splitting and delivery with retry, and the orchestration in     *)
(* main() with its short circuits and its top-level failure handler.       *)
(*                                                                         *)
(* Text is a sequence of one-character strings where its content decides   *)
(* something (the keyword prefilter), and a sequence of lines, each with   *)
(* its length and the summary it belongs to, where only lengths decide     *)
(* (message splitting).  The clock counts days.                            *)
(***************************************************************************)
EXTENDS Integers, Sequences, FiniteSets, TLC

(***************************************************************************)
(* Bounds of the model.                                                    *)
(***************************************************************************)
MaxFetch == 2      \* items one run fetches, at most
MaxRuns == 2       \* scheduled runs in one behaviour
MaxElapsed == 1    \* days that pass while one run is at work, at most
MaxKwItems == 2    \* items in one input of the keyword prefilter check
MaxScoreItems == 4 \* items in one input of the impact scorer check
MaxAiItems == 3    \* items in one input of the relevance filter check
MaxLines == 3      \* lines of one text given to the chunker
MaxLineLen == 4    \* characters of one such line, at most
MaxChunkLen == 3   \* the largest length limit given to the chunker
MaxRetriesArg == 4 \* the largest retries argument given to the retry loop
MaxCallItems == 6  \* items the AI stages are followed through, call by call
MaxRawItems == 2   \* items of one feed, elements of one page, at most

(***************************************************************************)
(* Program constants.                                                      *)
(***************************************************************************)
MAX_AGE_DAYS == 30
TELEGRAM_MAX_MESSAGE_LENGTH == 4096
MinCategories == 2
DefaultRetries == 3
SeparatorDashes == 30
batchSize == 5

(***************************************************************************)
(* JavaScript values, where the code's treatment of a value depends on     *)
(* its type: a number, a boolean, a string, undefined, NaN.                *)
(***************************************************************************)
Num(n) == [t |-> "number", n |-> n]
Bool(b) == [t |-> "boolean", b |-> b]
Str(s) == [t |-> "string", s |-> s]
Undefined == [t |-> "undefined"]
Null == [t |-> "null"]
NaN == [t |-> "NaN"]
\* A string that ToNumber reads as the number n, such as "30".
NumStr(n) == [t |-> "string", s |-> "numeric", n |-> n]

\* ToNumber, for the values the oracle's JSON can hold.
ToNumber(v) ==
    CASE v.t = "number" -> v
      [] v.t = "boolean" -> Num(IF v.b THEN 1 ELSE 0)
      [] v.t = "null" -> Num(0)
      [] v.t = "string" ->
            IF v.s = "" THEN Num(0)
            ELSE IF "n" \in DOMAIN v THEN Num(v.n) ELSE NaN
      [] OTHER -> NaN

\* a < b and a > b: false as soon as one side is NaN.
Less(a, b) ==
    LET x == ToNumber(a)
        y == ToNumber(b)
    IN x.t = "number" /\ y.t = "number" /\ x.n < y.n

\* The truthiness the operators || and ?: and if() go by.
Truthy(v) ==
    CASE v.t = "number" -> v.n # 0
      [] v.t = "boolean" -> v.b
      [] v.t = "string" -> v.s # ""
      [] OTHER -> FALSE

\* v >= n, for the values ToNumber takes to a number or to NaN.
AtLeast(v, n) ==
    LET x == ToNumber(v)
    IN x.t = "number" /\ x.n >= n

(***************************************************************************)
(* Generic helpers.                                                        *)
(***************************************************************************)
Range(s) == {s[i] : i \in 1..Len(s)}

RECURSIVE Flatten(_)
Flatten(ss) == IF ss = <<>> THEN <<>> ELSE Head(ss) \o Flatten(Tail(ss))

\* s is a subsequence of t: s can be read off t left to right.
RECURSIVE IsSubsequence(_, _)
IsSubsequence(s, t) ==
    IF s = <<>> THEN TRUE
    ELSE IF t = <<>> THEN FALSE
    ELSE IF Head(s) = Head(t) THEN IsSubsequence(Tail(s), Tail(t))
    ELSE IsSubsequence(s, Tail(t))

(***************************************************************************)
(* Keyword prefilter (src/src/filters/keywordFilter.js).                   *)
(***************************************************************************)
\* The keywords of each category that can be spelled with the letters the
\* model's texts use (b c d e f g h i p q t u r a and the space); every other
\* keyword of the source needs a letter no text of the model holds.
KEYWORDS ==
    [crypto |-> { <<"b","t","c">>, <<"e","t","h">>, <<"d","e","f","i">> },
     fed    |-> { <<"f","e","d">>, <<"q","e">>,
                  <<"r","a","t","e"," ","c","u","t">> },
     macro  |-> { <<"g","d","p">>, <<"c","p","i">>, <<"p","p","i">> }]

Categories == {"crypto", "fed", "macro"}

\* String.prototype.toLowerCase, on the upper-case letters the texts use.
toLowerCaseChar(c) ==
    CASE c = "B" -> "b" [] c = "T" -> "t" [] c = "C" -> "c" [] c = "F" -> "f"
      [] c = "E" -> "e" [] c = "D" -> "d" [] c = "G" -> "g" [] c = "P" -> "p"
      [] c = "R" -> "r" [] OTHER -> c

toLowerCase(text) == [i \in 1..Len(text) |-> toLowerCaseChar(text[i])]

\* String.prototype.includes.
includes(text, keyword) ==
    \E i \in 0..(Len(text) - Len(keyword)) :
        \A j \in 1..Len(keyword) : text[i + j] = keyword[j]

containsKeywords(text, keywords) ==
    IF text = <<>> THEN FALSE
    ELSE LET lowerText == toLowerCase(text)
         IN \E keyword \in keywords : includes(lowerText, toLowerCase(keyword))

countCategoryMatches(title, description) ==
    LET combinedText == title \o <<" ">> \o description
        matches == [c \in Categories |-> containsKeywords(combinedText, KEYWORDS[c])]
    IN [crypto |-> matches["crypto"], fed |-> matches["fed"],
        macro |-> matches["macro"],
        categoryCount |-> Cardinality({c \in Categories : matches[c]})]

filterByKeywordsAnyCategory(news) ==
    LET Keep(item) ==
            countCategoryMatches(item.title, item.description).categoryCount >= 1
        Annotate(item) ==
            [item EXCEPT !.keywordMatches =
                countCategoryMatches(item.title, item.description)]
        kept == SelectSeq(news, Keep)
    IN [i \in 1..Len(kept) |-> Annotate(kept[i])]

filterByKeywords(news) ==
    LET Keep(item) ==
            countCategoryMatches(item.title, item.description).categoryCount
                >= MinCategories
        Annotate(item) ==
            [item EXCEPT !.keywordMatches =
                countCategoryMatches(item.title, item.description)]
        kept == SelectSeq(news, Keep)
    IN [i \in 1..Len(kept) |-> Annotate(kept[i])]


(***************************************************************************)
(* News items.  The fetchers hand over {title, description, url, ...};     *)
(* later stages attach keywordMatches, aiScore, aiReason and impact.       *)
(***************************************************************************)
NewsItem(url, title, description) ==
    [url |-> url, title |-> title, description |-> description,
     keywordMatches |-> Undefined, aiScore |-> Undefined,
     aiReason |-> Undefined, impact |-> Undefined]

\* What the configured sources can hold: two items of two categories or
\* more, a third with the url of the first under another title, and one of
\* a single category.
NewsPool ==
    { NewsItem("u1", <<"B","T","C">>, <<"F","e","d">>),
      NewsItem("u2", <<"g","d","p">>, <<"e","t","h"," ","q","e">>),
      NewsItem("u1", <<"F","e","d"," ","c","p","i">>, <<>>),
      NewsItem("u3", <<"F","e","d">>, <<>>) }

\* The sequences of at most MaxFetch distinct pool items.
FetchChoices ==
    UNION { { q \in [1..n -> NewsPool] :
                \A i, j \in 1..n : i # j => q[i] # q[j] } : n \in 0..MaxFetch }

(***************************************************************************)
(* Relevance oracle adapter (src/unnamed/part_001).                        *)
(***************************************************************************)
\* What a call of the chat completion API can do: fail in transport, or
\* answer with a text.  A text is described by what the parser reads off
\* it: whether a JSON object parses out of it, that object's score and
\* relevant fields, and the number the score regex finds.
Threw == [kind |-> "throw"]
JsonVerdict(score, relevant) ==
    [kind |-> "json", score |-> score, relevant |-> relevant,
     scoreMatch |-> Undefined]
PlainText(scoreMatch) ==
    [kind |-> "text", score |-> Undefined, relevant |-> Undefined,
     scoreMatch |-> scoreMatch]

RelevanceResponses ==
    { Threw, JsonVerdict(Num(8), Bool(TRUE)), JsonVerdict(Num(3), Bool(FALSE)) }

judgeRelevanceDropOnError(hasKey, response) ==
    IF ~hasKey \/ response.kind = "throw"
    THEN [score |-> Num(5), reason |-> Str("error"), relevant |-> Bool(FALSE)]
    ELSE LET fallbackScore ==
                 IF response.scoreMatch # Undefined THEN response.scoreMatch
                 ELSE Num(5)
             result ==
                 IF response.kind = "json"
                 THEN [score |-> response.score, reason |-> Str("given"),
                       relevant |-> response.relevant]
                 ELSE [score |-> fallbackScore, reason |-> Str("format"),
                       relevant |-> Bool(AtLeast(fallbackScore, 6))]
         IN [score |-> IF Truthy(result.score) THEN result.score ELSE Num(0),
             reason |-> result.reason,
             relevant |-> IF result.relevant # Undefined THEN result.relevant
                          ELSE Bool(AtLeast(result.score, 6))]

judgeRelevanceFallbackKeeps(hasKey, response) ==
    IF ~hasKey \/ response.kind = "throw"
    THEN [score |-> Num(5), reason |-> Str("error"), relevant |-> Bool(TRUE)]
    ELSE LET fallbackScore ==
                 IF response.scoreMatch # Undefined THEN response.scoreMatch
                 ELSE Num(5)
             result ==
                 IF response.kind = "json"
                 THEN [score |-> response.score, reason |-> Str("given"),
                       relevant |-> response.relevant]
                 ELSE [score |-> fallbackScore, reason |-> Str("format"),
                       relevant |-> Bool(AtLeast(fallbackScore, 5))]
         IN [score |-> IF Truthy(result.score) THEN result.score ELSE Num(0),
             reason |-> result.reason,
             relevant |-> IF result.relevant # Undefined THEN result.relevant
                          ELSE Bool(AtLeast(result.score, 6))]

judgeRelevance(hasKey, response) ==
    IF ~hasKey \/ response.kind = "throw"
    THEN [score |-> Num(5), reason |-> Str("error"), relevant |-> Bool(TRUE)]
    ELSE LET fallbackScore ==
                 IF response.scoreMatch # Undefined THEN response.scoreMatch
                 ELSE Num(5)
             result ==
                 IF response.kind = "json"
                 THEN [score |-> response.score, reason |-> Str("given"),
                       relevant |-> response.relevant]
                 ELSE [score |-> fallbackScore, reason |-> Str("format"),
                       relevant |-> Bool(AtLeast(fallbackScore, 6))]
         IN [score |-> IF Truthy(result.score) THEN result.score ELSE Num(0),
             reason |-> result.reason,
             relevant |-> IF result.relevant # Undefined THEN result.relevant
                          ELSE Bool(AtLeast(result.score, 6))]

RECURSIVE filterByAI(_, _, _)
\* filterByAI(news), responses[i] being what the oracle does for news[i]:
\* the batches are judged and their results read in input order.
filterByAI(hasKey, news, responses) ==
    IF news = <<>> THEN <<>>
    ELSE LET judgment == judgeRelevance(hasKey, Head(responses))
             item == [Head(news) EXCEPT !.aiScore = judgment.score,
                                        !.aiReason = judgment.reason]
             rest == filterByAI(hasKey, Tail(news), Tail(responses))
         IN IF Truthy(judgment.relevant) THEN <<item>> \o rest ELSE rest

(***************************************************************************)
(* Impact scoring engine (src/src/processors/impactScorer.js).             *)
(***************************************************************************)
Min(a, b) == IF a < b THEN a ELSE b
Max(a, b) == IF a > b THEN a ELSE b
OrElse(v, d) == IF Truthy(v) THEN v ELSE d

\* Math.max(lo, Math.min(hi, v || 0)): a value that is no number makes NaN.
Clamp(v, lo, hi) ==
    LET given == ToNumber(OrElse(v, Num(0)))
    IN IF given.t = "number" THEN Num(Max(lo, Min(hi, given.n))) ELSE NaN

JsonImpact(ps, eg, tu, cr, total, level, direction) ==
    [kind |-> "json", policyStrength |-> ps, expectationGap |-> eg,
     timeUrgency |-> tu, cryptoRelevance |-> cr, totalScore |-> total,
     level |-> level, direction |-> direction, reasoning |-> Str("given")]

DefaultImpactZero(reasoning) ==
    [policyStrength |-> Num(0), expectationGap |-> Num(0),
     timeUrgency |-> Num(0), cryptoRelevance |-> Num(0),
     totalScore |-> Num(0), level |-> Str("medium"),
     direction |-> Str("neutral"), reasoning |-> Str(reasoning)]

DefaultImpact(reasoning) ==
    [policyStrength |-> Num(10), expectationGap |-> Num(10),
     timeUrgency |-> Num(10), cryptoRelevance |-> Num(10),
     totalScore |-> Num(40), level |-> Str("medium"),
     direction |-> Str("neutral"), reasoning |-> Str(reasoning)]

ImpactResponses ==
    { Threw,
      JsonImpact(Num(22), Num(20), Num(21), Num(22), Num(85),
                 Str("critical"), Str("bullish")),
      JsonImpact(Num(10), Num(5), Num(5), Num(10), Num(30),
                 Str("low"), Str("neutral")),
      JsonImpact(Num(15), Num(15), Num(10), Num(15), Num(55),
                 Str("medium"), Str("bearish")) }

scoreImpact(hasKey, response) ==
    IF ~hasKey \/ response.kind = "throw"
    THEN DefaultImpact("error")
    ELSE LET result ==
                 IF response.kind = "json" THEN response
                 ELSE [kind |-> "json"] @@ DefaultImpact("parse")
         IN [policyStrength |-> Clamp(result.policyStrength, 0, 25),
             expectationGap |-> Clamp(result.expectationGap, 0, 25),
             timeUrgency |-> Clamp(result.timeUrgency, 0, 25),
             cryptoRelevance |-> Clamp(result.cryptoRelevance, 0, 25),
             totalScore |-> Clamp(result.totalScore, 0, 100),
             level |-> OrElse(result.level, Str("medium")),
             direction |-> OrElse(result.direction, Str("neutral")),
             reasoning |-> OrElse(result.reasoning, Str("none"))]

\* getImpactEmoji(score): the sign of the band the score falls in, named
\* after the band.
getImpactEmoji(score) ==
    IF AtLeast(score, 80) THEN "critical"
    ELSE IF AtLeast(score, 60) THEN "high"
    ELSE IF AtLeast(score, 40) THEN "medium"
    ELSE IF AtLeast(score, 20) THEN "low"
    ELSE "negligible"

\* item.impact?.totalScore || 0
TotalOf(item) ==
    IF item.impact = Undefined THEN 0
    ELSE OrElse(item.impact.totalScore, Num(0)).n

RECURSIVE InsertByScore(_, _)
\* Put item behind every element whose total is not lower than its own.
InsertByScore(sorted, item) ==
    IF sorted = <<>> THEN <<item>>
    ELSE IF TotalOf(Head(sorted)) >= TotalOf(item)
         THEN <<Head(sorted)>> \o InsertByScore(Tail(sorted), item)
         ELSE <<item>> \o sorted

RECURSIVE InsertBeforeEqual(_, _)
InsertBeforeEqual(sorted, item) ==
    IF sorted = <<>> THEN <<item>>
    ELSE IF TotalOf(Head(sorted)) > TotalOf(item)
         THEN <<Head(sorted)>> \o InsertBeforeEqual(Tail(sorted), item)
         ELSE <<item>> \o sorted

RECURSIVE SortByScoreUnstable(_)
SortByScoreUnstable(news) ==
    IF news = <<>> THEN <<>>
    ELSE InsertBeforeEqual(SortByScoreUnstable(SubSeq(news, 1, Len(news) - 1)),
                           news[Len(news)])

SortByScoreKeepOrder(news) == news

RECURSIVE SortByScore(_)
\* Array.prototype.sort with (a, b) => b.total - a.total: descending, stable.
SortByScore(news) ==
    IF news = <<>> THEN <<>>
    ELSE InsertByScore(SortByScore(SubSeq(news, 1, Len(news) - 1)),
                       news[Len(news)])

\* scoreAllNewsImpact(news), responses[i] being what the oracle does for
\* news[i]: every item gets its impact, then the array is sorted.
scoreAllNewsImpact(hasKey, news, responses) ==
    SortByScore([i \in 1..Len(news) |->
                    [news[i] EXCEPT !.impact = scoreImpact(hasKey, responses[i])]])

(***************************************************************************)
(* Deduplication ledger (src/unnamed/part_002).  The backing file is       *)
(* missing, holds something JSON.parse or the reader rejects ("corrupt"),  *)
(* or holds {records, lastUpdated}.                                        *)
(***************************************************************************)
MissingFile == [kind |-> "missing", records |-> <<>>, lastUpdated |-> Undefined]
CorruptFile == [kind |-> "corrupt", records |-> <<>>, lastUpdated |-> Undefined]
JsonFile(records, lastUpdated) ==
    [kind |-> "json", records |-> records, lastUpdated |-> lastUpdated]

\* maxAge, in the clock's unit (a day).
maxAge == MAX_AGE_DAYS * 1

WithinAgeInclusive(record, clock) == (clock - record.sentAt) <= maxAge

WithinAge(record, clock) == (clock - record.sentAt) < maxAge

loadSentNewsPersistsEviction(file, clock, writable) ==
    IF file.kind = "missing"
    THEN [urls |-> {}, records |-> <<>>, result |-> "created",
          file |-> IF writable THEN JsonFile(<<>>, Undefined) ELSE file]
    ELSE IF file.kind = "corrupt"
    THEN [urls |-> {}, records |-> <<>>, result |-> "failed", file |-> file]
    ELSE LET Valid(record) == WithinAge(record, clock)
             validRecords == SelectSeq(file.records, Valid)
         IN [urls |-> {r.url : r \in Range(validRecords)},
             records |-> validRecords, result |-> "read",
             file |-> JsonFile(validRecords, file.lastUpdated)]

\* loadSentNews() -> {urls, records}; result and file tell what it did to
\* get there: it creates a missing file and survives every failure.
loadSentNews(file, clock, writable) ==
    IF file.kind = "missing"
    THEN [urls |-> {}, records |-> <<>>, result |-> "created",
          file |-> IF writable THEN JsonFile(<<>>, Undefined) ELSE file]
    ELSE IF file.kind = "corrupt"
    THEN [urls |-> {}, records |-> <<>>, result |-> "failed", file |-> file]
    ELSE LET Valid(record) == WithinAge(record, clock)
             validRecords == SelectSeq(file.records, Valid)
         IN [urls |-> {r.url : r \in Range(validRecords)},
             records |-> validRecords, result |-> "read", file |-> file]

isNewsSent(url, sentUrls) == url \in sentUrls

filterUnsentNewsInverted(news, sentUrls) ==
    LET Sent(item) == isNewsSent(item.url, sentUrls)
    IN SelectSeq(news, Sent)

filterUnsentNews(news, sentUrls) ==
    LET Unsent(item) == ~isNewsSent(item.url, sentUrls)
    IN SelectSeq(news, Unsent)

saveSentNewsKeepAll(news, existingRecords, clock, writable, file) ==
    LET newRecords == [i \in 1..Len(news) |->
                          [url |-> news[i].url, title |-> news[i].title,
                           sentAt |-> clock]]
        allRecords == existingRecords \o newRecords
    IN IF writable
       THEN [threw |-> FALSE, file |-> JsonFile(allRecords, clock)]
       ELSE [threw |-> TRUE, file |-> file]

saveSentNewsOnlyExisting(news, existingRecords, clock, writable, file) ==
    LET Valid(record) == WithinAge(record, clock)
        validRecords == SelectSeq(existingRecords, Valid)
    IN IF writable
       THEN [threw |-> FALSE, file |-> JsonFile(validRecords, clock)]
       ELSE [threw |-> TRUE, file |-> file]

\* saveSentNews(news, existingRecords): the file it leaves, or the throw of
\* a failed write.
saveSentNews(news, existingRecords, clock, writable, file) ==
    LET newRecords == [i \in 1..Len(news) |->
                          [url |-> news[i].url, title |-> news[i].title,
                           sentAt |-> clock]]
        allRecords == existingRecords \o newRecords
        Valid(record) == WithinAge(record, clock)
        validRecords == SelectSeq(allRecords, Valid)
    IN IF writable
       THEN [threw |-> FALSE, file |-> JsonFile(validRecords, clock)]
       ELSE [threw |-> TRUE, file |-> file]

(***************************************************************************)
(* Message chunker and delivery (src/src/telegram/sender.js).  A string is *)
(* the sequence of its lines, a line is its length and the summary it      *)
(* comes from (0: a header, a divider or a notification).                  *)
(***************************************************************************)
Line(len, of) == [len |-> len, of |-> of]

RECURSIVE SumLen(_)
SumLen(lines) == IF lines = <<>> THEN 0 ELSE Head(lines).len + SumLen(Tail(lines))

\* String.prototype.length of the lines joined by "\n".
StrLen(lines) == IF lines = <<>> THEN 0 ELSE SumLen(lines) + (Len(lines) - 1)

\* currentMessage += (currentMessage ? '\n' : '') + line
AppendLine(currentMessage, line) ==
    IF StrLen(currentMessage) > 0 THEN Append(currentMessage, line) ELSE <<line>>

\* The pieces the while loop pushes for a line longer than maxLength.
HardPieces(line, maxLength) ==
    [k \in 1..((line.len - 1) \div maxLength) |-> <<Line(maxLength, line.of)>>]

Remaining(line, maxLength) ==
    Line(line.len - ((line.len - 1) \div maxLength) * maxLength, line.of)

RECURSIVE SplitLines(_, _, _, _)
SplitLines(lines, messages, currentMessage, maxLength) ==
    IF lines = <<>>
    THEN IF StrLen(currentMessage) > 0 THEN Append(messages, currentMessage)
         ELSE messages
    ELSE LET line == Head(lines)
             pushed == IF StrLen(currentMessage) > 0
                       THEN Append(messages, currentMessage) ELSE messages
         IN IF StrLen(currentMessage) + line.len + 1 <= maxLength
            THEN SplitLines(Tail(lines), messages,
                            AppendLine(currentMessage, line), maxLength)
            ELSE IF line.len > maxLength
            THEN SplitLines(Tail(lines), pushed \o HardPieces(line, maxLength),
                            <<Remaining(line, maxLength)>>, maxLength)
            ELSE SplitLines(Tail(lines), pushed, <<line>>, maxLength)

splitMessage(message, maxLength) ==
    IF StrLen(message) <= maxLength THEN <<message>>
    ELSE SplitLines(message, <<>>, <<>>, maxLength)

\* sendMessageWithRetry: initBot throws without the credentials; otherwise
\* the message goes out unless every one of the attempts fails.
sendMessageWithRetry(config, failures, retries) ==
    IF ~config.token \/ ~config.chat THEN "throw"
    ELSE IF failures < retries THEN "sent" ELSE "throw"

\* '\n\n' + '─'.repeat(30) + '\n\n' between two summaries.
separator == << Line(0, 0), Line(SeparatorDashes, 0), Line(0, 0) >>

RECURSIVE JoinSummaries(_)
JoinSummaries(summaries) ==
    IF Len(summaries) = 0 THEN <<>>
    ELSE IF Len(summaries) = 1 THEN summaries[1]
    ELSE summaries[1] \o separator \o JoinSummaries(Tail(summaries))

\* `📊 今日新闻 (i/N)\n\n` in front of a summary sent on its own.
HeaderLen == 13
WithHeader(summary) == << Line(HeaderLen, 0), Line(0, 0) >> \o summary

SendPlanAlwaysJoined(summaries) ==
    [mode |-> "joined",
     groups |-> << splitMessage(JoinSummaries(summaries),
                                TELEGRAM_MAX_MESSAGE_LENGTH) >>]

\* The messages sendNewsSummaries sets out to send: which branch it takes,
\* and per group (the one summary, the joined text, or each summary with
\* its header) the chunks splitMessage makes of it.
SendPlan(summaries) ==
    IF Len(summaries) = 1
    THEN [mode |-> "single",
          groups |-> << splitMessage(summaries[1], TELEGRAM_MAX_MESSAGE_LENGTH) >>]
    ELSE LET combined == JoinSummaries(summaries)
         IN IF StrLen(combined) <= TELEGRAM_MAX_MESSAGE_LENGTH
            THEN [mode |-> "joined",
                  groups |-> << splitMessage(combined, TELEGRAM_MAX_MESSAGE_LENGTH) >>]
            ELSE [mode |-> "each",
                  groups |-> [i \in 1..Len(summaries) |->
                                 splitMessage(WithHeader(summaries[i]),
                                              TELEGRAM_MAX_MESSAGE_LENGTH)]]

\* The notifications main() sends, by the place that sends them.
NoticeLines(text) ==
    CASE text = "nothing-fetched" -> << Line(13, 0) >>
      [] text = "nothing-by-keyword" -> << Line(17, 0) >>
      [] text = "nothing-by-ai" -> << Line(17, 0) >>
      [] text = "nothing-unsent" -> << Line(18, 0) >>
      [] text = "task-failed" -> << Line(11, 0), Line(26, 0) >>

ShortCircuitTexts ==
    {"nothing-fetched", "nothing-by-keyword", "nothing-by-ai", "nothing-unsent"}


(***************************************************************************)
(* The state of the pipeline (src/unnamed/part_003, main).                 *)
(***************************************************************************)
VARIABLES
    config,          \* which credentials the environment holds
    world,           \* what the oracle can answer, how long its texts are,
                     \* how often a send can fail, whether the disk takes writes
    feed,            \* what the configured sources publish
    store,           \* data/sent_news.json
    now,             \* the clock, in days
    run,             \* the number of the scheduled run
    pc,              \* where main() stands
    allNews, keywordFiltered, aiFiltered, scoredNews,
    idx,             \* the loop index of the stage at work
    loaded,          \* what loadSentNews returned: urls, records, result
    unsentNews, summaries,
    plan, gi, ci,    \* sendNewsSummaries: its messages, group and chunk at work
    successCount,
    counted,         \* the summaries sendNewsSummaries has counted as sent
    sentCount,
    channel,         \* the messages the chat has received in this run
    notice,          \* the notifications main() has asked for in this run
    io,              \* per run: calls made to the collaborators and the store
    elapsed,         \* days gone by since the run started
    exitCode,
    saved,           \* what saveSentNews has written in this run, and when
    prev,            \* what the previous run fetched, scored and committed
    kw,              \* the keyword prefilter on its own: input and output
    ai,              \* filterByAI on its own: input, oracle answers, the
                     \* verdicts judgeRelevance returned, output
    sc,              \* scoreAllNewsImpact on its own: the same
    sp,              \* splitMessage on its own: text, limit and chunks
    rt,              \* sendMessageWithRetry on its own: where its loop
                     \* stands, the attempts made and the waits taken
    cc,              \* the oracle calls of the three AI stages on their
                     \* own: the calls in flight and the order of events
    nz               \* the normalizers on their own: what one source
                     \* answered and the news items made of it

vars == << config, world, feed, store, now, run, pc, allNews, keywordFiltered,
           aiFiltered, scoredNews, idx, loaded, unsentNews, summaries, plan,
           gi, ci, successCount, counted, sentCount, channel, notice, io,
           elapsed, exitCode, saved, prev, kw, ai, sc, sp, rt, cc, nz >>

runVars == << allNews, keywordFiltered, aiFiltered, scoredNews, idx, loaded,
              unsentNews, summaries, plan, gi, ci, successCount, counted,
              sentCount, channel, notice, io, elapsed, exitCode, saved >>

NoIo == [fetch |-> 0, oracle |-> 0, delivery |-> 0, ledgerRead |-> 0,
         ledgerWrite |-> 0]
NotLoaded == [urls |-> {}, records |-> <<>>, result |-> "none", at |-> 0]
NotSaved == [done |-> FALSE, records |-> <<>>, at |-> 0]
NoKw == [news |-> <<>>, kept |-> <<>>, applied |-> FALSE]
NoAi == [news |-> <<>>, responses |-> <<>>, verdicts |-> <<>>,
         filtered |-> <<>>, applied |-> FALSE]
NoSc == [news |-> <<>>, responses |-> <<>>, scored |-> <<>>, applied |-> FALSE]
NoSp == [text |-> <<>>, maxLength |-> 0, messages |-> <<>>, applied |-> FALSE]
NoRt == [pc |-> "none", retries |-> 0, fails |-> <<>>, i |-> 0, attempts |-> 0,
         waits |-> <<>>]
NoCc == [stage |-> "none", pc |-> "none", n |-> 0, i |-> 0, inflight |-> {},
         started |-> <<>>]
NoNz == [origin |-> "none", response |-> [ok |-> FALSE, items |-> <<>>],
         news |-> <<>>, applied |-> FALSE]
NoPlan == [mode |-> "none", groups |-> <<>>]
NoPrev == [committed |-> FALSE, allNews |-> <<>>, scored |-> <<>>,
           loaded |-> <<>>, records |-> <<>>]
Running == -1

Configs ==
    { [openai |-> TRUE, token |-> TRUE, chat |-> TRUE],
      [openai |-> FALSE, token |-> TRUE, chat |-> TRUE],
      [openai |-> TRUE, token |-> FALSE, chat |-> TRUE],
      [openai |-> TRUE, token |-> TRUE, chat |-> FALSE] }

StartClock == 40

OldRecord(url, title, age) == [url |-> url, title |-> title, sentAt |-> StartClock - age]

\* The ledger files a first run can find: none, an unreadable one, and
\* files whose records are older than the retention, exactly as old, and
\* younger.
InitialStores ==
    { MissingFile, CorruptFile,
      JsonFile(<<>>, Undefined),
      JsonFile(<< OldRecord("u1", <<"B","T","C">>, MAX_AGE_DAYS - 1) >>,
               StartClock - (MAX_AGE_DAYS - 1)),
      JsonFile(<< OldRecord("u2", <<"g","d","p">>, MAX_AGE_DAYS + 5),
                  OldRecord("u1", <<"B","T","C">>, MAX_AGE_DAYS) >>,
               StartClock - MAX_AGE_DAYS),
      JsonFile(<< OldRecord("u3", <<"F","e","d">>, MAX_AGE_DAYS - 1),
                  OldRecord("u2", <<"g","d","p">>, 1) >>,
               StartClock - 1) }

\* What an oracle summary, or the fallback text, can look like: one short
\* line, one long line, two long lines.
SummaryShapes == { <<100>>, <<2500>>, <<2500, 2500>> }

\* The environments a behaviour can run in.  Each lets one stage meet every
\* answer of its collaborator and gives the other stages one answer.
Relevant == JsonVerdict(Num(8), Bool(TRUE))
Impact85 == JsonImpact(Num(22), Num(20), Num(21), Num(22), Num(85),
                       Str("critical"), Str("bullish"))
Worlds ==
    { [relevance |-> RelevanceResponses, impact |-> {Impact85},
       shapes |-> {<<100>>}, failures |-> 0..DefaultRetries,
       writable |-> BOOLEAN],
      [relevance |-> {Relevant}, impact |-> ImpactResponses,
       shapes |-> {<<100>>}, failures |-> 0..DefaultRetries,
       writable |-> BOOLEAN],
      [relevance |-> {Relevant}, impact |-> {Impact85},
       shapes |-> SummaryShapes, failures |-> 0..DefaultRetries,
       writable |-> BOOLEAN] }

\* The environments of the behaviours with more than one run: the oracle
\* answers a question the way it answered it before and the chat takes
\* every message.
SteadyWorlds ==
    { [relevance |-> {Relevant}, impact |-> {Impact85}, shapes |-> {sh},
       failures |-> {0}, writable |-> BOOLEAN] :
        sh \in {<<100>>, <<2500>>} }

RunStart ==
    /\ pc = "fetch"
    /\ allNews = <<>> /\ keywordFiltered = <<>> /\ aiFiltered = <<>>
    /\ scoredNews = <<>> /\ idx = 0 /\ loaded = NotLoaded
    /\ unsentNews = <<>> /\ summaries = <<>> /\ plan = NoPlan
    /\ gi = 0 /\ ci = 0 /\ successCount = 0 /\ counted = {} /\ sentCount = 0
    /\ channel = <<>> /\ notice = <<>> /\ io = NoIo /\ elapsed = 0
    /\ exitCode = Running /\ saved = NotSaved

Init ==
    /\ config \in Configs
    /\ world \in Worlds
    /\ feed \in FetchChoices
    /\ store \in InitialStores
    /\ now = StartClock
    /\ run = 1
    /\ prev = NoPrev
    /\ kw = NoKw
    /\ ai = NoAi
    /\ sc = NoSc
    /\ sp = NoSp /\ rt = NoRt /\ cc = NoCc /\ nz = NoNz
    /\ RunStart

Bump(field) == [io EXCEPT ![field] = @ + 1]

\* An early return of main(): the notification is due, nothing else.
ShortCircuit(text) ==
    /\ notice' = Append(notice, text)
    /\ pc' = "notify"

\* main(), step 1 and 2: the fetch (a source that fails contributes
\* nothing), then the keyword prefilter, which needs no await.
Fetch ==
    /\ pc = "fetch"
    /\ \E got \in {feed, <<>>} :
        /\ allNews' = got
        /\ io' = Bump("fetch")
        /\ IF got = <<>>
           THEN /\ ShortCircuit("nothing-fetched")
                /\ UNCHANGED << keywordFiltered, idx >>
           ELSE /\ keywordFiltered' = filterByKeywords(got)
                /\ IF filterByKeywords(got) = <<>>
                   THEN ShortCircuit("nothing-by-keyword") /\ UNCHANGED idx
                   ELSE pc' = "ai" /\ idx' = 1 /\ UNCHANGED notice
    /\ UNCHANGED << kw, ai, sc, sp, rt, cc, nz, config, world, feed, store, now, run, aiFiltered, scoredNews,
                    loaded, unsentNews, summaries, plan, gi, ci, successCount,
                    counted, sentCount, channel, elapsed, exitCode, saved, prev >>

\* filterByAI, one item: the oracle answers or fails, the verdict is
\* attached, the item is kept if the verdict says relevant.  After the last
\* item main() goes on: the early return, or the first scoring call.
JudgeItem ==
    /\ pc = "ai"
    /\ \E response \in world.relevance :
        LET item == keywordFiltered[idx]
            judgment == judgeRelevance(config.openai, response)
            judged == [item EXCEPT !.aiScore = judgment.score,
                                   !.aiReason = judgment.reason]
            filtered == IF Truthy(judgment.relevant)
                        THEN Append(aiFiltered, judged) ELSE aiFiltered
        IN /\ aiFiltered' = filtered
           /\ io' = IF config.openai THEN Bump("oracle") ELSE io
           /\ IF idx < Len(keywordFiltered)
              THEN idx' = idx + 1 /\ pc' = "ai" /\ UNCHANGED notice
              ELSE IF filtered = <<>>
              THEN ShortCircuit("nothing-by-ai") /\ UNCHANGED idx
              ELSE idx' = 1 /\ pc' = "score" /\ UNCHANGED notice
    /\ UNCHANGED << kw, ai, sc, sp, rt, cc, nz, config, world, feed, store, now, run, allNews, keywordFiltered,
                    scoredNews, loaded, unsentNews, summaries, plan, gi, ci,
                    successCount, counted, sentCount, channel, elapsed, exitCode, saved, prev >>

\* scoreAllNewsImpact, one item; after the last one the array is sorted in
\* place, so aiFiltered is the sorted array too.
ScoreItem ==
    /\ pc = "score"
    /\ \E response \in world.impact :
        LET impact == scoreImpact(config.openai, response)
            scored == [aiFiltered EXCEPT ![idx] = [@ EXCEPT !.impact = impact]]
        IN /\ io' = IF config.openai THEN Bump("oracle") ELSE io
           /\ IF idx < Len(aiFiltered)
              THEN /\ aiFiltered' = scored
                   /\ idx' = idx + 1
                   /\ UNCHANGED << scoredNews, pc >>
              ELSE /\ aiFiltered' = SortByScore(scored)
                   /\ scoredNews' = SortByScore(scored)
                   /\ idx' = 0
                   /\ pc' = "dedup"
    /\ UNCHANGED << kw, ai, sc, sp, rt, cc, nz, config, world, feed, store, now, run, allNews, keywordFiltered,
                    loaded, unsentNews, summaries, plan, gi, ci, successCount,
                    counted, sentCount, channel, notice, elapsed, exitCode,
                    saved, prev >>

DedupNoCatch ==
    /\ pc = "dedup"
    /\ \E writable \in world.writable :
        LET got == loadSentNews(store, now, writable)
            unsent == filterUnsentNews(scoredNews, got.urls)
            threw == store.kind = "corrupt" \/ (store.kind = "missing" /\ ~writable)
        IN /\ loaded' = [urls |-> got.urls, records |-> got.records,
                         result |-> got.result, at |-> now]
           /\ store' = got.file
           /\ io' = [io EXCEPT !.ledgerRead = @ + 1,
                               !.ledgerWrite =
                                   IF got.file # store THEN @ + 1 ELSE @]
           /\ unsentNews' = IF threw THEN <<>> ELSE unsent
           /\ IF threw
              THEN /\ notice' = Append(notice, "task-failed")
                   /\ pc' = "catch"
                   /\ UNCHANGED idx
              ELSE IF unsent = <<>>
              THEN ShortCircuit("nothing-unsent") /\ UNCHANGED idx
              ELSE idx' = 1 /\ pc' = "summarize" /\ UNCHANGED notice
    /\ UNCHANGED << kw, ai, sc, sp, rt, cc, nz, config, world, feed, now, run, allNews, keywordFiltered,
                    aiFiltered, scoredNews, summaries, plan, gi, ci,
                    successCount, counted, sentCount, channel, elapsed,
                    exitCode, saved, prev >>

\* main(), step 5: loadSentNews, filterUnsentNews and the early return.
Dedup ==
    /\ pc = "dedup"
    /\ \E writable \in world.writable :
        LET got == loadSentNews(store, now, writable)
            unsent == filterUnsentNews(scoredNews, got.urls)
        IN /\ loaded' = [urls |-> got.urls, records |-> got.records,
                         result |-> got.result, at |-> now]
           /\ store' = got.file
           /\ io' = [io EXCEPT !.ledgerRead = @ + 1,
                               !.ledgerWrite =
                                   IF got.file # store THEN @ + 1 ELSE @]
           /\ unsentNews' = unsent
           /\ IF unsent = <<>>
              THEN ShortCircuit("nothing-unsent") /\ UNCHANGED idx
              ELSE idx' = 1 /\ pc' = "summarize" /\ UNCHANGED notice
    /\ UNCHANGED << kw, ai, sc, sp, rt, cc, nz, config, world, feed, now, run, allNews, keywordFiltered,
                    aiFiltered, scoredNews, summaries, plan, gi, ci,
                    successCount, counted, sentCount, channel, elapsed, exitCode, saved, prev >>


SummaryText(shape, of) == [i \in 1..Len(shape) |-> Line(shape[i], of)]

\* The error leaves the stage: main()'s catch block takes over.
Escape ==
    /\ notice' = Append(notice, "task-failed")
    /\ pc' = "catch"

\* summarizeAllNews, one item: a text comes back whatever the oracle does.
\* After the last one sendNewsSummaries starts: initBot, then the messages
\* to send.
SummarizeItem ==
    /\ pc = "summarize"
    /\ \E shape \in world.shapes :
        LET all == Append(summaries, SummaryText(shape, idx))
        IN /\ summaries' = all
           /\ io' = IF config.openai THEN Bump("oracle") ELSE io
           /\ IF idx < Len(unsentNews)
              THEN /\ idx' = idx + 1
                   /\ UNCHANGED << pc, plan, gi, ci, notice >>
              ELSE IF ~config.token \/ ~config.chat
              THEN Escape /\ UNCHANGED << idx, plan, gi, ci >>
              ELSE /\ plan' = SendPlan(all)
                   /\ gi' = 1 /\ ci' = 1 /\ idx' = 0
                   /\ pc' = "send"
                   /\ UNCHANGED notice
    /\ UNCHANGED << kw, ai, sc, sp, rt, cc, nz, config, world, feed, store, now, run, allNews, keywordFiltered,
                    aiFiltered, scoredNews, loaded, unsentNews, successCount,
                    counted, sentCount, channel, elapsed, exitCode, saved, prev >>

\* sendNewsSummaries has sent, or given up on, its last group.
SendReturns(count, which) ==
    /\ sentCount' = count
    /\ counted' = which
    /\ pc' = "save"

SendChunkSkipsFailedChunk ==
    /\ pc = "send"
    /\ \E failures \in world.failures :
        LET outcome == sendMessageWithRetry(config, failures, DefaultRetries)
            group == plan.groups[gi]
            lastChunk == ci = Len(group)
            lastGroup == gi = Len(plan.groups)
            each == plan.mode = "each"
        IN /\ io' = Bump("delivery")
           /\ IF outcome = "sent"
              THEN /\ channel' = Append(channel, [text |-> "news", lines |-> group[ci]])
                   /\ IF ~lastChunk
                      THEN /\ ci' = ci + 1
                           /\ UNCHANGED << gi, successCount, counted, sentCount,
                                           pc, notice >>
                      ELSE /\ successCount' = IF each THEN successCount + 1
                                              ELSE successCount
                           /\ IF ~lastGroup
                              THEN /\ gi' = gi + 1 /\ ci' = 1
                                   /\ counted' = counted \cup {gi}
                                   /\ UNCHANGED << sentCount, pc, notice >>
                              ELSE /\ IF each
                                      THEN SendReturns(successCount + 1,
                                                       counted \cup {gi})
                                      ELSE SendReturns(
                                              IF plan.mode = "single" THEN 1
                                              ELSE Len(summaries),
                                              1..Len(summaries))
                                   /\ UNCHANGED << gi, ci, notice >>
              ELSE /\ UNCHANGED << channel, successCount >>
                   /\ IF ~each
                      THEN Escape /\ UNCHANGED << gi, ci, counted, sentCount >>
                      ELSE IF ~lastChunk
                      THEN /\ ci' = ci + 1
                           /\ UNCHANGED << gi, counted, sentCount, pc, notice >>
                      ELSE IF ~lastGroup
                      THEN /\ gi' = gi + 1 /\ ci' = 1
                           /\ UNCHANGED << counted, sentCount, pc, notice >>
                      ELSE /\ SendReturns(successCount, counted)
                           /\ UNCHANGED << gi, ci, notice >>
    /\ UNCHANGED << kw, ai, sc, sp, rt, cc, nz, config, world, feed, store, now, run, allNews, keywordFiltered,
                    aiFiltered, scoredNews, idx, loaded, unsentNews, summaries,
                    plan, elapsed, exitCode, saved, prev >>

\* sendNewsSummaries, one chunk through sendMessageWithRetry.  A throw
\* leaves the function, except in the one-by-one branch, whose try/catch
\* drops the rest of that summary and goes on with the next.
SendChunk ==
    /\ pc = "send"
    /\ \E failures \in world.failures :
        LET outcome == sendMessageWithRetry(config, failures, DefaultRetries)
            group == plan.groups[gi]
            lastChunk == ci = Len(group)
            lastGroup == gi = Len(plan.groups)
            each == plan.mode = "each"
        IN /\ io' = Bump("delivery")
           /\ IF outcome = "sent"
              THEN /\ channel' = Append(channel, [text |-> "news", lines |-> group[ci]])
                   /\ IF ~lastChunk
                      THEN /\ ci' = ci + 1
                           /\ UNCHANGED << gi, successCount, counted, sentCount,
                                           pc, notice >>
                      ELSE /\ successCount' = IF each THEN successCount + 1
                                              ELSE successCount
                           /\ IF ~lastGroup
                              THEN /\ gi' = gi + 1 /\ ci' = 1
                                   /\ counted' = counted \cup {gi}
                                   /\ UNCHANGED << sentCount, pc, notice >>
                              ELSE /\ IF each
                                      THEN SendReturns(successCount + 1,
                                                       counted \cup {gi})
                                      ELSE SendReturns(
                                              IF plan.mode = "single" THEN 1
                                              ELSE Len(summaries),
                                              1..Len(summaries))
                                   /\ UNCHANGED << gi, ci, notice >>
              ELSE /\ UNCHANGED << channel, successCount >>
                   /\ IF ~each
                      THEN Escape /\ UNCHANGED << gi, ci, counted, sentCount >>
                      ELSE IF ~lastGroup
                      THEN /\ gi' = gi + 1 /\ ci' = 1
                           /\ UNCHANGED << counted, sentCount, pc, notice >>
                      ELSE /\ SendReturns(successCount, counted)
                           /\ UNCHANGED << gi, ci, notice >>
    /\ UNCHANGED << kw, ai, sc, sp, rt, cc, nz, config, world, feed, store, now, run, allNews, keywordFiltered,
                    aiFiltered, scoredNews, idx, loaded, unsentNews, summaries,
                    plan, elapsed, exitCode, saved, prev >>

\* main(), step 8: saveSentNews(unsentNews, existingRecords), then
\* process.exit(0); a failed write is rethrown into the catch block.
Save ==
    /\ pc = "save"
    /\ \E writable \in world.writable :
        LET res == saveSentNews(unsentNews, loaded.records, now, writable, store)
        IN /\ io' = Bump("ledgerWrite")
           /\ IF res.threw
              THEN Escape /\ UNCHANGED << store, exitCode, saved >>
              ELSE /\ store' = res.file
                   /\ saved' = [done |-> TRUE, records |-> res.file.records,
                                at |-> now]
                   /\ exitCode' = 0
                   /\ pc' = "exited"
                   /\ UNCHANGED notice
    /\ UNCHANGED << kw, ai, sc, sp, rt, cc, nz, config, world, feed, now, run, allNews, keywordFiltered,
                    aiFiltered, scoredNews, idx, loaded, unsentNews, summaries,
                    plan, gi, ci, successCount, counted, sentCount, channel,
                    elapsed, prev >>

\* sendSimpleMessage(text): the chunks go out in order until one fails for
\* good; the failure is swallowed.  delivered is how many went out.
sendSimpleMessage(text, delivered) ==
    LET messages == splitMessage(NoticeLines(text), TELEGRAM_MAX_MESSAGE_LENGTH)
    IN /\ delivered \in 0..Len(messages)
       /\ (~config.token \/ ~config.chat) => delivered = 0
       /\ (config.token /\ config.chat /\ DefaultRetries \notin world.failures)
              => delivered = Len(messages)
       /\ channel' = channel \o
              [k \in 1..delivered |-> [text |-> text, lines |-> messages[k]]]
       /\ io' = IF config.token /\ config.chat THEN Bump("delivery") ELSE io

NotifyAndReturnExit1 ==
    /\ pc = "notify"
    /\ \E delivered \in 0..1 : sendSimpleMessage(notice[Len(notice)], delivered)
    /\ exitCode' = 1
    /\ pc' = "exited"
    /\ UNCHANGED << kw, ai, sc, sp, rt, cc, nz, config, world, feed, store, now, run, allNews, keywordFiltered,
                    aiFiltered, scoredNews, idx, loaded, unsentNews, summaries,
                    plan, gi, ci, successCount, counted, sentCount, notice,
                    elapsed, saved, prev >>

\* An early return: the notification, then main() returns and the process
\* ends with status 0.
NotifyAndReturn ==
    /\ pc = "notify"
    /\ \E delivered \in 0..1 : sendSimpleMessage(notice[Len(notice)], delivered)
    /\ exitCode' = 0
    /\ pc' = "exited"
    /\ UNCHANGED << kw, ai, sc, sp, rt, cc, nz, config, world, feed, store, now, run, allNews, keywordFiltered,
                    aiFiltered, scoredNews, idx, loaded, unsentNews, summaries,
                    plan, gi, ci, successCount, counted, sentCount, notice,
                    elapsed, saved, prev >>

CatchAndExitZero ==
    /\ pc = "catch"
    /\ \E delivered \in 0..1 : sendSimpleMessage(notice[Len(notice)], delivered)
    /\ exitCode' = 0
    /\ pc' = "exited"
    /\ UNCHANGED << kw, ai, sc, sp, rt, cc, nz, config, world, feed, store, now, run, allNews, keywordFiltered,
                    aiFiltered, scoredNews, idx, loaded, unsentNews, summaries,
                    plan, gi, ci, successCount, counted, sentCount, notice,
                    elapsed, saved, prev >>

\* The catch block of main(): the failure notification, then
\* process.exit(1).
CatchAndExit ==
    /\ pc = "catch"
    /\ \E delivered \in 0..1 : sendSimpleMessage(notice[Len(notice)], delivered)
    /\ exitCode' = 1
    /\ pc' = "exited"
    /\ UNCHANGED << kw, ai, sc, sp, rt, cc, nz, config, world, feed, store, now, run, allNews, keywordFiltered,
                    aiFiltered, scoredNews, idx, loaded, unsentNews, summaries,
                    plan, gi, ci, successCount, counted, sentCount, notice,
                    elapsed, saved, prev >>

\* Time passes while the run is at work.
Tick ==
    /\ pc \in {"dedup", "save"}
    /\ elapsed < MaxElapsed
    /\ now' = now + 1
    /\ elapsed' = elapsed + 1
    /\ UNCHANGED << kw, ai, sc, sp, rt, cc, nz, config, world, feed, store, run, pc, allNews, keywordFiltered,
                    aiFiltered, scoredNews, idx, loaded, unsentNews, summaries,
                    plan, gi, ci, successCount, counted, sentCount, channel,
                    notice, io, exitCode, saved, prev >>

\* Between two runs the ledger file is lost.
StoreFault ==
    /\ pc = "exited"
    /\ run < MaxRuns
    /\ store.kind = "json"
    /\ store' = MissingFile
    /\ UNCHANGED << kw, ai, sc, sp, rt, cc, nz, config, world, feed, now, run, pc, runVars, prev >>

\* The scheduler starts the next run, at once or a retention period
\* later; the sources publish what they published.
NextRun ==
    /\ pc = "exited"
    /\ run < MaxRuns
    /\ run' = run + 1
    /\ \E days \in {0, MAX_AGE_DAYS} : now' = now + days
    /\ pc' = "fetch"
    /\ allNews' = <<>> /\ keywordFiltered' = <<>> /\ aiFiltered' = <<>>
    /\ scoredNews' = <<>> /\ idx' = 0 /\ loaded' = NotLoaded
    /\ unsentNews' = <<>> /\ summaries' = <<>> /\ plan' = NoPlan
    /\ gi' = 0 /\ ci' = 0 /\ successCount' = 0 /\ counted' = {}
    /\ sentCount' = 0 /\ channel' = <<>> /\ notice' = <<>> /\ io' = NoIo
    /\ elapsed' = 0 /\ exitCode' = Running /\ saved' = NotSaved
    /\ prev' = IF saved.done
               THEN [committed |-> TRUE, allNews |-> allNews,
                     scored |-> scoredNews, loaded |-> loaded.records,
                     records |-> saved.records]
               ELSE NoPrev
    /\ UNCHANGED << kw, ai, sc, sp, rt, cc, nz, config, world, feed, store >>

\* One run of the pipeline.
Next ==
    \/ Fetch \/ JudgeItem \/ ScoreItem \/ Dedup \/ SummarizeItem \/ SendChunk
    \/ Save \/ NotifyAndReturn \/ CatchAndExit \/ Tick

Spec == Init /\ [][Next]_vars

\* Scheduled runs one after the other, with all credentials in place.
InitRuns ==
    /\ config = [openai |-> TRUE, token |-> TRUE, chat |-> TRUE]
    /\ world \in SteadyWorlds
    /\ feed \in FetchChoices
    /\ store \in {file \in InitialStores : file.kind = "json"}
    /\ now = StartClock
    /\ run = 1
    /\ prev = NoPrev
    /\ kw = NoKw
    /\ ai = NoAi
    /\ sc = NoSc
    /\ sp = NoSp /\ rt = NoRt /\ cc = NoCc /\ nz = NoNz
    /\ RunStart

NextRuns == Next \/ StoreFault \/ NextRun

SpecRuns == InitRuns /\ [][NextRuns]_vars

(***************************************************************************)
(* The keyword prefilter on inputs of its own.                             *)
(***************************************************************************)
KwTitles ==
    { <<"B","T","C">>, <<"F","e","d">>, <<"r","a","t","e">>, <<"h","i">>,
      <<"b">>, <<"G","D","P"," ","e","t","h">> }
KwDescriptions ==
    { <<>>, <<"c","u","t">>, <<"t","c">>, <<"g","d","p">>,
      <<"q","e"," ","B","t","c">> }
KwItems == { NewsItem("u", t, d) : t \in KwTitles, d \in KwDescriptions }
KwInputs == UNION { [1..n -> KwItems] : n \in 0..MaxKwItems }

InitKw ==
    /\ kw \in { [news |-> news, kept |-> <<>>, applied |-> FALSE] :
                   news \in KwInputs }
    /\ config = [openai |-> TRUE, token |-> TRUE, chat |-> TRUE]
    /\ world = [relevance |-> {Relevant}, impact |-> {Impact85},
                shapes |-> {<<100>>}, failures |-> {0}, writable |-> {TRUE}]
    /\ ai = NoAi
    /\ sc = NoSc
    /\ sp = NoSp /\ rt = NoRt /\ cc = NoCc /\ nz = NoNz
    /\ feed = <<>>
    /\ store = MissingFile
    /\ now = StartClock
    /\ run = 1
    /\ prev = NoPrev
    /\ RunStart

ApplyKeywordFilter ==
    /\ ~kw.applied
    /\ kw' = [news |-> kw.news, kept |-> filterByKeywords(kw.news),
              applied |-> TRUE]
    /\ UNCHANGED << ai, sc, sp, rt, cc, nz, config, world, feed, store, now, run, pc, runVars,
                    prev >>

NextKw == ApplyKeywordFilter

SpecKw == InitKw /\ [][NextKw]_vars

(***************************************************************************)
(* The impact scorer on inputs of its own: one item against everything the *)
(* oracle can put into a field, and lists of items against a few totals.   *)
(***************************************************************************)
PlainImpact == [kind |-> "text"]

SubScoreValues == { Undefined, Num(-5), Num(10), Num(30), Str("high") }
CoercedValues == { Null, Bool(TRUE), NumStr(30), Str(""), Num(0), Num(25) }
TotalValues ==
    { Undefined, Null, Num(-5), Num(50), Num(150), Str("high"), NumStr(85) }
BandTotals ==
    { Undefined, Num(0), Num(19), Num(20), Num(39), Num(40), Num(59), Num(60),
      Num(79), Num(80), Num(100), Num(150) }
LevelValues ==
    { Undefined, Str("critical"), Str("high"), Str("medium"), Str("low"),
      Str("negligible"), Str("other") }

ImpactOutputs ==
    { Threw, PlainImpact }
    \cup { JsonImpact(ps, eg, tu, cr, total, Str("medium"), Str("neutral")) :
             ps \in SubScoreValues, eg \in SubScoreValues,
             tu \in SubScoreValues, cr \in SubScoreValues,
             total \in TotalValues }
    \cup { JsonImpact(v, Num(10), Num(10), Num(10), v, Str("medium"), Undefined) :
             v \in CoercedValues }
    \cup { JsonImpact(Num(10), Num(10), Num(10), Num(10), total, level,
                      Str("bullish")) :
             total \in BandTotals, level \in LevelValues }

TotalOnly(total) ==
    JsonImpact(Num(10), Num(10), Num(10), Num(10), total, Str("medium"),
               Str("neutral"))
SortOutputs ==
    { Threw, TotalOnly(Num(90)), TotalOnly(Num(40)), TotalOnly(Num(10)),
      TotalOnly(Num(0)), TotalOnly(Str("high")) }

ProbeItems(n) == [i \in 1..n |-> NewsItem(ToString(i), <<>>, <<>>)]

\* The inputs with n items: every array of n oracle outcomes that differ in
\* the total and, for one item, every outcome the oracle can produce.
ScoreInputs(n) ==
    IF n = 1
    THEN { [news |-> ProbeItems(1), responses |-> <<r>>] :
             r \in ImpactOutputs \cup SortOutputs }
    ELSE { [news |-> ProbeItems(n), responses |-> rs] :
             rs \in [1..n -> SortOutputs] }

ProbeEnvironment ==
    /\ world = [relevance |-> {Relevant}, impact |-> {Impact85},
                shapes |-> {<<100>>}, failures |-> {0}, writable |-> {TRUE}]
    /\ feed = <<>>
    /\ store = MissingFile
    /\ now = StartClock
    /\ run = 1
    /\ prev = NoPrev
    /\ RunStart

InitScore ==
    /\ \E n \in 0..MaxScoreItems :
          \E in \in ScoreInputs(n) :
             sc = [news |-> in.news, responses |-> in.responses,
                   scored |-> <<>>, applied |-> FALSE]
    /\ config \in { c \in Configs : c.token /\ c.chat }
    /\ kw = NoKw
    /\ ai = NoAi
    /\ sp = NoSp /\ rt = NoRt /\ cc = NoCc /\ nz = NoNz
    /\ ProbeEnvironment

ApplyScoreAll ==
    /\ ~sc.applied
    /\ sc' = [sc EXCEPT !.scored = scoreAllNewsImpact(config.openai, sc.news,
                                                      sc.responses),
                        !.applied = TRUE]
    /\ UNCHANGED << kw, ai, sp, rt, cc, nz, config, world, feed, store, now, run, pc, runVars,
                    prev >>

NextScore == ApplyScoreAll

SpecScore == InitScore /\ [][NextScore]_vars

(***************************************************************************)
(* The relevance filter on inputs of its own.                              *)
(***************************************************************************)
ScoreFieldValues ==
    { Undefined, Null, Num(0), Num(3), Num(6), Num(15), Str("high"), NumStr(7) }
RelevantFieldValues ==
    { Undefined, Null, Bool(TRUE), Bool(FALSE), Str("false"), Str(""), Num(1) }
ScoreMatches == { Undefined, Num(0), Num(5), Num(6), Num(42) }

RelevanceOutputs ==
    { Threw }
    \cup { PlainText(m) : m \in ScoreMatches }
    \cup { JsonVerdict(score, relevant) :
             score \in ScoreFieldValues, relevant \in RelevantFieldValues }

BatchOutputs ==
    { Threw, PlainText(Undefined), JsonVerdict(Num(8), Bool(TRUE)),
      JsonVerdict(Num(3), Bool(FALSE)), JsonVerdict(Num(3), Str("false")) }

AiInputs ==
    { [news |-> ProbeItems(1), responses |-> <<r>>] : r \in RelevanceOutputs }
    \cup UNION { { [news |-> ProbeItems(n), responses |-> rs] :
                     rs \in [1..n -> BatchOutputs] } : n \in 0..MaxAiItems }

InitAi ==
    /\ ai \in { [news |-> in.news, responses |-> in.responses,
                 verdicts |-> <<>>, filtered |-> <<>>, applied |-> FALSE] :
                   in \in AiInputs }
    /\ config \in { c \in Configs : c.token /\ c.chat }
    /\ kw = NoKw
    /\ sc = NoSc
    /\ sp = NoSp /\ rt = NoRt /\ cc = NoCc /\ nz = NoNz
    /\ ProbeEnvironment

ApplyFilterByAI ==
    /\ ~ai.applied
    /\ ai' = [ai EXCEPT !.verdicts =
                            [i \in 1..Len(ai.news) |->
                                judgeRelevance(config.openai, ai.responses[i])],
                        !.filtered = filterByAI(config.openai, ai.news,
                                                ai.responses),
                        !.applied = TRUE]
    /\ UNCHANGED << kw, sc, sp, rt, cc, nz, config, world, feed, store, now, run, pc, runVars,
                    prev >>

NextAi == ApplyFilterByAI

SpecAi == InitAi /\ [][NextAi]_vars

(***************************************************************************)
(* The chunker on texts of its own.  Line i of the text carries i, so that *)
(* a chunk tells which lines went into it.                                 *)
(***************************************************************************)
AllCredentials == [openai |-> TRUE, token |-> TRUE, chat |-> TRUE]

\* The texts of n lines: message.split('\n') of a string always has a
\* first line, be it the empty one.
SplitTexts(n) ==
    { [i \in 1..n |-> Line(len[i], i)] : len \in [1..n -> 0..MaxLineLen] }

InitSplit ==
    /\ \E n \in 1..MaxLines :
          \E text \in SplitTexts(n) :
             \E maxLength \in 1..MaxChunkLen :
                sp = [text |-> text, maxLength |-> maxLength,
                      messages |-> <<>>, applied |-> FALSE]
    /\ config = AllCredentials
    /\ kw = NoKw /\ ai = NoAi /\ sc = NoSc /\ rt = NoRt /\ cc = NoCc /\ nz = NoNz
    /\ ProbeEnvironment

ApplySplit ==
    /\ ~sp.applied
    /\ sp' = [sp EXCEPT !.messages = splitMessage(sp.text, sp.maxLength),
                        !.applied = TRUE]
    /\ UNCHANGED << kw, ai, sc, rt, cc, nz, config, world, feed, store, now, run,
                    pc, runVars, prev >>

NextSplit == ApplySplit

SpecSplit == InitSplit /\ [][NextSplit]_vars

(***************************************************************************)
(* Properties of the pipeline.                                             *)
(***************************************************************************)
CountWhere(n, P(_)) == Cardinality({k \in 1..n : P(k)})

RecordOf(item, clock) ==
    [url |-> item.url, title |-> item.title, sentAt |-> clock]

NewsMessages == {k \in 1..Len(channel) : channel[k].text = "news"}

\* C1: an item is written to the ledger only once its delivery has been
\* confirmed: whenever the run has committed, every item of unsentNews
\* whose record the commit wrote is one sendNewsSummaries counted as sent.
C1_CommittedOnlyIfDelivered ==
    saved.done =>
        \A i \in 1..Len(unsentNews) :
            (\E k \in 1..Len(saved.records) :
                saved.records[k] = RecordOf(unsentNews[i], saved.at))
            => i \in counted

\* C2: a run that follows a run that delivered and committed, fetches the
\* same items and gets the same verdicts and scores, and loads the ledger
\* while every record the first run loaded or wrote is still younger than
\* MAX_AGE_DAYS, finds nothing unsent: it summarizes nothing, delivers no
\* news message and commits nothing.
SecondRunOnSameInput ==
    /\ run > 1
    /\ prev.committed
    /\ loaded.result = "read"
    /\ allNews = prev.allNews
    /\ scoredNews = prev.scored
    /\ \A r \in Range(prev.loaded) \cup Range(prev.records) :
          loaded.at - r.sentAt < MAX_AGE_DAYS

Thm_C2_SecondRunDeliversNothing ==
    SecondRunOnSameInput =>
        /\ unsentNews = <<>>
        /\ summaries = <<>>
        /\ NewsMessages = {}
        /\ ~saved.done
        /\ pc \in {"notify", "exited"}
        /\ notice = << "nothing-unsent" >>

Wit_C2_SecondRunDeliversNothing ==
    /\ SecondRunOnSameInput
    /\ Len(prev.scored) = MaxFetch
    /\ pc = "exited"
    /\ exitCode = 0
    /\ channel = << [text |-> "nothing-unsent",
                     lines |-> NoticeLines("nothing-unsent")] >>

\* C3: filterUnsentNews keeps exactly the scored items whose url is not in
\* the loaded url set, in their order; nothing else reaches the summarizer.
Thm_C3_UnsentAreExactlyUnknownUrls ==
    loaded.result # "none" =>
        LET Unknown(k) == scoredNews[k].url \notin loaded.urls
        IN /\ IsSubsequence(unsentNews, scoredNews)
           /\ \A i \in 1..Len(unsentNews) : unsentNews[i].url \notin loaded.urls
           /\ Len(unsentNews) = CountWhere(Len(scoredNews), Unknown)
           /\ Len(summaries) <= Len(unsentNews)
           /\ \A k \in 1..Len(summaries) :
                \A l \in 1..Len(summaries[k]) : summaries[k][l].of = k

Wit_C3_UnsentAreExactlyUnknownUrls ==
    /\ loaded.result = "read"
    /\ loaded.urls # {}
    /\ Len(scoredNews) = 2
    /\ Len(unsentNews) = 1
    /\ unsentNews[1] = scoredNews[2]
    /\ NewsMessages # {}

\* C4: after a run in which every unsent item was delivered, the ledger
\* file holds the loaded records that are still inside the retention
\* window, in their order, followed by one record {url, title, sentAt}
\* per item of unsentNews, in its order, stamped with the time of the
\* commit.
Thm_C4_LedgerAfterFullDelivery ==
    (saved.done /\ sentCount = Len(unsentNews)) =>
        LET Young(k) == saved.at - loaded.records[k].sentAt < MAX_AGE_DAYS
            kept == CountWhere(Len(loaded.records), Young)
            n == Len(unsentNews)
        IN /\ Len(saved.records) = kept + n
           /\ IsSubsequence(SubSeq(saved.records, 1, kept), loaded.records)
           /\ \A k \in 1..kept :
                saved.at - saved.records[k].sentAt < MAX_AGE_DAYS
           /\ \A i \in 1..n :
                saved.records[kept + i] = RecordOf(unsentNews[i], saved.at)
           /\ pc = "exited" =>
                store = JsonFile(saved.records, saved.at)

Wit_C4_LedgerAfterFullDelivery ==
    /\ saved.done
    /\ pc = "exited"
    /\ sentCount = 2
    /\ Len(unsentNews) = 2
    /\ allNews[1].url = unsentNews[2].url
    /\ TotalOf(unsentNews[1]) > TotalOf(unsentNews[2])
    /\ Len(store.records) = 2

\* C5: records of 30 days or more are dropped when the ledger is loaded
\* and again when it is saved, and nothing else is: what loadSentNews
\* returns is the file's records younger than MAX_AGE_DAYS at the load,
\* what saveSentNews writes is younger than MAX_AGE_DAYS at the save and
\* keeps every loaded record that still is, and a record committed by one
\* run is loaded by the next one exactly when it is still younger than
\* MAX_AGE_DAYS.
Thm_C5_RetentionOnLoadAndSave ==
    /\ (loaded.result = "read" /\ ~saved.done /\ pc # "exited") =>
          LET Young(k) == loaded.at - store.records[k].sentAt < MAX_AGE_DAYS
          IN /\ IsSubsequence(loaded.records, store.records)
             /\ \A r \in Range(loaded.records) :
                    loaded.at - r.sentAt < MAX_AGE_DAYS
             /\ Len(loaded.records) = CountWhere(Len(store.records), Young)
             /\ loaded.urls = {r.url : r \in Range(loaded.records)}
    /\ saved.done =>
          /\ \A r \in Range(saved.records) : saved.at - r.sentAt < MAX_AGE_DAYS
          /\ \A r \in Range(loaded.records) :
                saved.at - r.sentAt < MAX_AGE_DAYS
                    => r \in Range(saved.records)
    /\ (run > 1 /\ prev.committed /\ loaded.result = "read") =>
          \A r \in Range(prev.records) :
              r \in Range(loaded.records)
                  <=> loaded.at - r.sentAt < MAX_AGE_DAYS

Wit_C5_RetentionOnLoadAndSave ==
    /\ run > 1
    /\ prev.committed
    /\ loaded.result = "read"
    /\ \E r \in Range(prev.records) :
          /\ r.sentAt < StartClock
          /\ r \in Range(loaded.records)
    /\ \E r \in Range(prev.records) :
          /\ r \notin Range(loaded.records)
          /\ r.url \notin loaded.urls
          /\ loaded.at - r.sentAt = MAX_AGE_DAYS

\* C6: loadSentNews never fails: with the ledger file missing or
\* unreadable the load step hands on an empty url set and an empty record
\* list, every scored item counts as unsent, and the run goes on to the
\* summaries instead of the catch block.
Thm_C6_LoadNeverFails ==
    [][ (pc = "dedup" /\ pc' # "dedup") =>
            /\ pc' \in {"summarize", "notify"}
            /\ loaded'.result \in {"created", "failed", "read"}
            /\ store.kind # "json" =>
                  /\ loaded'.urls = {}
                  /\ loaded'.records = <<>>
                  /\ unsentNews' = scoredNews
                  /\ pc' = "summarize"
                  /\ notice' = notice ]_vars

Wit_C6_LoadNeverFails ==
    /\ loaded.result = "failed"
    /\ store.kind = "json"
    /\ saved.done
    /\ pc = "exited"
    /\ exitCode = 0

\* C7: a stage that leaves nothing ends the run: exactly one notification
\* is asked for, the one of that stage, no later stage has run, nothing is
\* delivered as news or committed, and the process ends with status 0;
\* and no later stage ever works on an empty list.
Thm_C7_EmptyStageShortCircuits ==
    /\ pc \in {"ai", "score", "dedup", "summarize", "send", "save"} =>
          allNews # <<>> /\ keywordFiltered # <<>>
    /\ pc \in {"score", "dedup", "summarize", "send", "save"} =>
          aiFiltered # <<>>
    /\ pc \in {"summarize", "send", "save"} => unsentNews # <<>>
    /\ (notice # <<>> /\ notice[1] \in ShortCircuitTexts) =>
          /\ Len(notice) = 1
          /\ pc \in {"notify", "exited"}
          /\ notice[1] = "nothing-fetched" <=> allNews = <<>>
          /\ notice[1] = "nothing-by-keyword" <=>
                (allNews # <<>> /\ keywordFiltered = <<>>)
          /\ notice[1] = "nothing-by-ai" <=>
                (keywordFiltered # <<>> /\ aiFiltered = <<>>)
          /\ notice[1] = "nothing-unsent" <=>
                (aiFiltered # <<>> /\ unsentNews = <<>>)
          /\ notice[1] \in {"nothing-fetched", "nothing-by-keyword"} =>
                io.oracle = 0
          /\ notice[1] = "nothing-by-ai" => io.oracle <= Len(keywordFiltered)
          /\ notice[1] # "nothing-unsent" =>
                /\ scoredNews = <<>>
                /\ loaded = NotLoaded
                /\ io.ledgerRead = 0
                /\ io.ledgerWrite = 0
          /\ notice[1] = "nothing-unsent" =>
                /\ loaded.result # "none"
                /\ io.oracle <= Len(keywordFiltered) + Len(aiFiltered)
          /\ summaries = <<>>
          /\ plan = NoPlan
          /\ ~saved.done
          /\ NewsMessages = {}
          /\ io.delivery <= 1
          /\ channel \in { <<>>, << [text |-> notice[1],
                                     lines |-> NoticeLines(notice[1])] >> }
          /\ pc = "exited" => exitCode = 0
    /\ (pc \in {"notify", "exited"} /\ (notice = <<>> \/ notice[1] = "task-failed"))
          => (pc = "exited" /\ allNews # <<>> /\ unsentNews # <<>>)

Wit_C7_EmptyStageShortCircuits ==
    /\ pc = "exited"
    /\ notice = << "nothing-by-ai" >>
    /\ Len(keywordFiltered) = 2
    /\ io.oracle = 2
    /\ exitCode = 0
    /\ channel = << [text |-> "nothing-by-ai",
                     lines |-> NoticeLines("nothing-by-ai")] >>

\* C8: a missing credential ends the run at startup, before any fetch,
\* oracle call, delivery or ledger access.
C8_MissingConfigStopsBeforeIo ==
    (~config.openai \/ ~config.token \/ ~config.chat) =>
        /\ io = NoIo
        /\ channel = <<>>
        /\ ~saved.done
        /\ pc = "exited" => exitCode = 1

\* C9: an error that leaves a stage reaches the catch block of main():
\* one failure notification is asked for, the process ends with status 1
\* whether or not the notification went out, and nothing is committed; a
\* failed ledger write is such an error; no other path ends with status 1.
Thm_C9_FailureEndsWithStatusOne ==
    /\ [](pc = "exited" =>
            /\ exitCode \in {0, 1}
            /\ exitCode = 1 <=> (notice # <<>> /\ notice[Len(notice)] = "task-failed")
            /\ exitCode = 1 => (notice = << "task-failed" >> /\ ~saved.done))
    /\ [][ pc = "catch" =>
            /\ pc' = "exited"
            /\ exitCode' = 1
            /\ notice' = notice
            /\ store' = store
            /\ saved' = saved ]_vars
    /\ [][ (pc # "catch" /\ pc' = "catch") =>
            /\ notice' = Append(notice, "task-failed")
            /\ store' = store
            /\ channel' = channel ]_vars
    /\ [][ (pc = "save" /\ pc' # "save") =>
            \/ pc' = "catch" /\ ~saved'.done /\ store' = store
            \/ pc' = "exited" /\ saved'.done /\ exitCode' = 0 ]_vars

Wit_C9_FailureEndsWithStatusOne ==
    /\ pc = "exited"
    /\ exitCode = 1
    /\ sentCount >= 1
    /\ io.ledgerWrite >= 1
    /\ ~saved.done
    /\ \A k \in 1..Len(channel) : channel[k].text # "task-failed"

\* C10: filterByKeywords keeps exactly the items in which keywords of at
\* least two of the three categories occur, case-insensitively, in the
\* title, a space and the description; the kept items keep their order.
Occurs(keyword, text) ==
    \E i \in 1..(Len(text) - Len(keyword) + 1) :
        SubSeq(text, i, i + Len(keyword) - 1) = keyword

CategoriesIn(item) ==
    { c \in Categories :
        \E keyword \in KEYWORDS[c] :
            Occurs(toLowerCase(keyword),
                   toLowerCase(item.title \o <<" ">> \o item.description)) }

Thm_C10_KeepsTwoCategoryItems ==
    kw.applied =>
        LET Enough(k) == Cardinality(CategoriesIn(kw.news[k])) >= 2
            plain == [k \in 1..Len(kw.kept) |->
                         [kw.kept[k] EXCEPT !.keywordMatches = Undefined]]
        IN /\ IsSubsequence(plain, kw.news)
           /\ \A k \in 1..Len(kw.kept) :
                Cardinality(CategoriesIn(kw.kept[k])) >= 2
           /\ Len(kw.kept) = CountWhere(Len(kw.news), Enough)

Wit_C10_KeepsTwoCategoryItems ==
    /\ kw.applied
    /\ Len(kw.news) = 2
    /\ Cardinality(CategoriesIn(kw.news[1])) = 1
    /\ Len(kw.kept) = 1
    /\ kw.kept[1].title = <<"B","T","C">>
    /\ kw.kept[1].description = <<"g","d","p">>
    /\ CategoriesIn(kw.kept[1]) = {"crypto", "macro"}

(***************************************************************************)
(* Properties of the impact scorer.                                        *)
(***************************************************************************)
InRange(v, lo, hi) == v.t = "number" /\ lo <= v.n /\ v.n <= hi

\* The scored item that was the input item at position i.
ScoredAt(i) ==
    sc.scored[CHOOSE k \in 1..Len(sc.scored) : sc.scored[k].url = sc.news[i].url]

\* C11: whatever the oracle answers, the impact attached to an item has
\* its four sub-scores in 0..25 and its totalScore in 0..100.
C11_ImpactFieldsInRange ==
    sc.applied =>
        \A k \in 1..Len(sc.scored) :
            /\ InRange(sc.scored[k].impact.policyStrength, 0, 25)
            /\ InRange(sc.scored[k].impact.expectationGap, 0, 25)
            /\ InRange(sc.scored[k].impact.timeUrgency, 0, 25)
            /\ InRange(sc.scored[k].impact.cryptoRelevance, 0, 25)
            /\ InRange(sc.scored[k].impact.totalScore, 0, 100)

\* C12: the level of every impact attached to an item is the band of its
\* totalScore: critical from 80, high from 60, medium from 40, low from
\* 20, negligible below.
C12_LevelIsBandOfTotal ==
    sc.applied =>
        \A k \in 1..Len(sc.scored) :
            sc.scored[k].impact.level =
                Str(getImpactEmoji(sc.scored[k].impact.totalScore))

\* C13: scoreAllNewsImpact returns its input items, each once and each
\* with an impact, so that no item comes before one with a greater
\* totalScore, and items with equal totalScore stay in input order.
Thm_C13_SortedStablePermutation ==
    sc.applied =>
        LET n == Len(sc.news)
            total(k) == sc.scored[k].impact.totalScore
        IN /\ Len(sc.scored) = n
           /\ \A i \in 1..n :
                \E k \in 1..n :
                    /\ sc.scored[k].url = sc.news[i].url
                    /\ sc.scored[k].impact # Undefined
                    /\ [sc.scored[k] EXCEPT !.impact = Undefined] = sc.news[i]
           /\ \A j, k \in 1..n : j < k => ~Less(total(j), total(k))
           /\ \A i, j \in 1..n :
                (i < j /\ ScoredAt(i).impact.totalScore.t = "number"
                       /\ ScoredAt(i).impact.totalScore
                            = ScoredAt(j).impact.totalScore)
                => \E k, l \in 1..n :
                      /\ k < l
                      /\ sc.scored[k].url = sc.news[i].url
                      /\ sc.scored[l].url = sc.news[j].url

Wit_C13_SortedStablePermutation ==
    /\ sc.applied
    /\ config.openai
    /\ sc.responses = << TotalOnly(Num(40)), TotalOnly(Num(90)),
                         TotalOnly(Num(40)), TotalOnly(Num(10)) >>
    /\ [k \in 1..Len(sc.scored) |-> sc.scored[k].url] = << "2", "1", "3", "4" >>
    /\ [k \in 1..Len(sc.scored) |-> sc.scored[k].impact.totalScore.n]
          = << 90, 40, 40, 10 >>

\* C14: in every run the summaries reach the channel from high impact to
\* low: no delivered line of a summary comes before a delivered line of a
\* summary whose item has a greater totalScore.
Thm_C14_DeliveredHighToLow ==
    \A p, q \in NewsMessages :
        \A a \in 1..Len(channel[p].lines), b \in 1..Len(channel[q].lines) :
            LET first == channel[p].lines[a].of
                second == channel[q].lines[b].of
            IN ((p < q \/ (p = q /\ a < b)) /\ first # 0 /\ second # 0)
               => /\ first <= second
                  /\ ~Less(unsentNews[first].impact.totalScore,
                           unsentNews[second].impact.totalScore)

Wit_C14_DeliveredHighToLow ==
    /\ pc = "exited"
    /\ Len(unsentNews) = 2
    /\ allNews[1].url = unsentNews[2].url
    /\ Less(unsentNews[2].impact.totalScore, unsentNews[1].impact.totalScore)
    /\ \E p \in NewsMessages :
          \E a, b \in 1..Len(channel[p].lines) :
              /\ a < b
              /\ channel[p].lines[a].of = 1
              /\ channel[p].lines[b].of = 2

\* C15: an item whose scoring answer cannot be parsed, or whose scoring
\* call fails, gets the default impact: the four sub-scores 10, totalScore
\* 40, level medium, direction neutral; the reasoning tells which of the
\* two happened.
Thm_C15_DefaultImpactOnFailure ==
    sc.applied =>
        \A i \in 1..Len(sc.news) :
            LET failed == ~config.openai \/ sc.responses[i].kind = "throw"
                unparsed == config.openai /\ sc.responses[i].kind = "text"
                impact == ScoredAt(i).impact
            IN (failed \/ unparsed) =>
                  /\ impact.policyStrength = Num(10)
                  /\ impact.expectationGap = Num(10)
                  /\ impact.timeUrgency = Num(10)
                  /\ impact.cryptoRelevance = Num(10)
                  /\ impact.totalScore = Num(40)
                  /\ impact.level = Str("medium")
                  /\ impact.direction = Str("neutral")
                  /\ impact.reasoning = Str(IF failed THEN "error" ELSE "parse")

Wit_C15_DefaultImpactOnFailure ==
    /\ sc.applied
    /\ config.openai
    /\ sc.responses = << TotalOnly(Num(10)), Threw >>
    /\ sc.scored[1].url = "2"
    /\ sc.scored[1].impact.totalScore = Num(40)
    /\ sc.scored[1].impact.reasoning = Str("error")

(***************************************************************************)
(* Properties of the relevance filter.                                     *)
(***************************************************************************)
\* The input positions whose items filterByAI returned.
Retained == { i \in 1..Len(ai.news) :
                \E k \in 1..Len(ai.filtered) : ai.filtered[k].url = ai.news[i].url }

\* C16: an item whose relevance call fails gets the verdict relevant =
\* true, score = 5, and is in the output of filterByAI; the other items of
\* the batch are judged as usual.
Thm_C16_FailedCallKeepsItem ==
    ai.applied =>
        \A i \in 1..Len(ai.news) :
            (~config.openai \/ ai.responses[i].kind = "throw") =>
                /\ ai.verdicts[i].relevant = Bool(TRUE)
                /\ ai.verdicts[i].score = Num(5)
                /\ i \in Retained
                /\ \E k \in 1..Len(ai.filtered) :
                      /\ ai.filtered[k].url = ai.news[i].url
                      /\ ai.filtered[k].aiScore = Num(5)

Wit_C16_FailedCallKeepsItem ==
    /\ ai.applied
    /\ config.openai
    /\ ai.responses = << JsonVerdict(Num(3), Bool(FALSE)), Threw,
                         JsonVerdict(Num(8), Bool(TRUE)) >>
    /\ Retained = {2, 3}
    /\ ai.filtered[1].aiScore = Num(5)
    /\ ai.filtered[2].aiScore = Num(8)

\* C17: when no JSON object parses out of the answer, the score is the
\* number the score pattern finds in the text, or 5 when it finds none,
\* and relevant is score >= 6: an answer without a score gives score 5,
\* relevant false, and the item is dropped.
Thm_C17_UnparsedAnswerFallsBack ==
    ai.applied =>
        \A i \in 1..Len(ai.news) :
            (config.openai /\ ai.responses[i].kind = "text") =>
                LET found == ai.responses[i].scoreMatch
                    score == IF found = Undefined THEN 5 ELSE found.n
                IN /\ ai.verdicts[i].score = Num(score)
                   /\ ai.verdicts[i].relevant = Bool(score >= 6)
                   /\ i \in Retained <=> score >= 6

Wit_C17_UnparsedAnswerFallsBack ==
    /\ ai.applied
    /\ config.openai
    /\ ai.responses = << PlainText(Undefined) >>
    /\ ai.verdicts[1].score = Num(5)
    /\ ai.verdicts[1].relevant = Bool(FALSE)
    /\ ai.filtered = <<>>

\* C18: filterByAI returns, in input order, exactly the items whose
\* verdict has relevant = the boolean true, each with aiScore and aiReason
\* of its verdict.
C18_KeepsExactlyRelevantTrue ==
    ai.applied =>
        LET Kept(i) == ai.verdicts[i].relevant = Bool(TRUE)
            plain == [k \in 1..Len(ai.filtered) |->
                         [ai.filtered[k] EXCEPT !.aiScore = Undefined,
                                                !.aiReason = Undefined]]
        IN /\ IsSubsequence(plain, ai.news)
           /\ Retained = { i \in 1..Len(ai.news) : Kept(i) }
           /\ \A i \in Retained :
                \E k \in 1..Len(ai.filtered) :
                    /\ ai.filtered[k].url = ai.news[i].url
                    /\ ai.filtered[k].aiScore = ai.verdicts[i].score
                    /\ ai.filtered[k].aiReason = ai.verdicts[i].reason

\* C19: every item filterByAI returns has an aiScore of at least 6.
C19_RetainedScoreAtLeastSix ==
    ai.applied =>
        \A k \in 1..Len(ai.filtered) : AtLeast(ai.filtered[k].aiScore, 6)

\* C20: every verdict judgeRelevance returns has a score in 0..10 and a
\* boolean relevant.
C20_VerdictWellFormed ==
    ai.applied =>
        \A i \in 1..Len(ai.verdicts) :
            /\ InRange(ai.verdicts[i].score, 0, 10)
            /\ ai.verdicts[i].relevant.t = "boolean"

(***************************************************************************)
(* sendMessageWithRetry(message, retries) step by step.  fails[k] tells    *)
(* whether the chat rejects attempt k; waits are the timers the loop has   *)
(* set, in milliseconds.                                                   *)
(***************************************************************************)
BackoffConstant(i) == 1000

\* 1000 * (i + 1), the delay after the failed attempt of loop index i.
Backoff(i) == 1000 * (i + 1)

InitRetry ==
    /\ config \in Configs
    /\ \E retries \in 0..MaxRetriesArg :
          \E fails \in [1..retries -> BOOLEAN] :
             rt = [pc |-> "call", retries |-> retries, fails |-> fails,
                   i |-> 0, attempts |-> 0, waits |-> <<>>]
    /\ kw = NoKw /\ ai = NoAi /\ sc = NoSc /\ sp = NoSp /\ cc = NoCc /\ nz = NoNz
    /\ ProbeEnvironment

\* initBot(), then the loop test for i = 0.
RetryCall ==
    /\ rt.pc = "call"
    /\ rt' = [rt EXCEPT !.pc = IF ~config.token \/ ~config.chat THEN "threw"
                               ELSE IF 0 < rt.retries THEN "try"
                               ELSE "returned false"]
    /\ UNCHANGED << kw, ai, sc, sp, cc, nz, config, world, feed, store, now, run,
                    pc, runVars, prev >>

\* One pass of the loop body: bot.sendMessage resolves and the function
\* returns true, or it rejects and the catch block sets the timer or
\* rethrows.
RetryAttempt ==
    /\ rt.pc = "try"
    /\ rt' = IF ~rt.fails[rt.i + 1]
             THEN [rt EXCEPT !.attempts = @ + 1, !.pc = "returned true"]
             ELSE IF rt.i < rt.retries - 1
             THEN [rt EXCEPT !.attempts = @ + 1, !.pc = "wait",
                             !.waits = Append(@, Backoff(rt.i))]
             ELSE [rt EXCEPT !.attempts = @ + 1, !.pc = "threw"]
    /\ UNCHANGED << kw, ai, sc, sp, cc, nz, config, world, feed, store, now, run,
                    pc, runVars, prev >>

\* The timer fires: i++ and the loop test.
RetryWait ==
    /\ rt.pc = "wait"
    /\ rt' = [rt EXCEPT !.i = @ + 1,
                        !.pc = IF rt.i + 1 < rt.retries THEN "try"
                               ELSE "returned false"]
    /\ UNCHANGED << kw, ai, sc, sp, cc, nz, config, world, feed, store, now, run,
                    pc, runVars, prev >>

NextRetry == RetryCall \/ RetryAttempt \/ RetryWait

SpecRetry == InitRetry /\ [][NextRetry]_vars

(***************************************************************************)
(* The oracle calls of filterByAI, scoreAllNewsImpact and summarizeAllNews *)
(* call by call: a call is in flight from the moment the request is made   *)
(* until its promise settles.  started lists the calls in the order they   *)
(* were made.  Items are numbered by their place in the stage's input.     *)
(***************************************************************************)
BatchOfWholeInput(i, n) == i..n

\* news.slice(i, i + batchSize), by item number.
BatchOf(i, n) == i..Min(i + batchSize - 1, n)

Call(stage, item) == [stage |-> stage, item |-> item]

\* The stage's function is entered with n items: with none it returns at
\* once (and main() returns after its notification).
Enter(stage, n) ==
    IF n = 0
    THEN [cc EXCEPT !.stage = "done", !.pc = "done", !.n = 0, !.i = 0]
    ELSE [cc EXCEPT !.stage = stage, !.pc = "start", !.n = n, !.i = 1]

InitCalls ==
    /\ config \in Configs
    /\ \E n \in 1..MaxCallItems :
          cc = [stage |-> "relevance", pc |-> "start", n |-> n, i |-> 1,
                inflight |-> {}, started |-> <<>>]
    /\ kw = NoKw /\ ai = NoAi /\ sc = NoSc /\ sp = NoSp /\ rt = NoRt
    /\ nz = NoNz
    /\ ProbeEnvironment

\* batch.map(async item => judgeRelevance(item)): every callback runs up to
\* its request before the next one starts, so the whole batch is in flight
\* when Promise.allSettled is awaited.  Without the API key initOpenAI
\* throws inside judgeRelevance and no request is made.
StartBatch ==
    /\ cc.stage = "relevance" /\ cc.pc = "start"
    /\ LET batch == BatchOf(cc.i, cc.n)
           first == cc.i
           calls == [k \in 1..Cardinality(batch) |->
                        Call("relevance", first + k - 1)]
       IN cc' = IF config.openai
                THEN [cc EXCEPT !.inflight = batch, !.pc = "await",
                                !.started = @ \o calls]
                ELSE [cc EXCEPT !.pc = "await"]
    /\ UNCHANGED << kw, ai, sc, sp, rt, nz, config, world, feed, store, now, run,
                    pc, runVars, prev >>

\* One request resolves or rejects.
SettleCall ==
    /\ \E k \in cc.inflight : cc' = [cc EXCEPT !.inflight = @ \ {k}]
    /\ UNCHANGED << kw, ai, sc, sp, rt, nz, config, world, feed, store, now, run,
                    pc, runVars, prev >>

\* Promise.allSettled resolves, the results are read, and the loop goes on
\* with the next batch or filterByAI returns the items it kept.
ReadBatch ==
    /\ cc.stage = "relevance" /\ cc.pc = "await" /\ cc.inflight = {}
    /\ IF cc.i + batchSize <= cc.n
       THEN cc' = [cc EXCEPT !.i = @ + batchSize, !.pc = "start"]
       ELSE \E kept \in 0..cc.n : cc' = Enter("impact", kept)
    /\ UNCHANGED << kw, ai, sc, sp, rt, nz, config, world, feed, store, now, run,
                    pc, runVars, prev >>

\* await scoreImpact(item) and await summarizeNews(item): the request for
\* item i.
StartCall ==
    /\ cc.stage \in {"impact", "summary"} /\ cc.pc = "start"
    /\ cc' = IF config.openai
             THEN [cc EXCEPT !.inflight = {cc.i}, !.pc = "await",
                             !.started = Append(@, Call(cc.stage, cc.i))]
             ELSE [cc EXCEPT !.pc = "await"]
    /\ UNCHANGED << kw, ai, sc, sp, rt, nz, config, world, feed, store, now, run,
                    pc, runVars, prev >>

\* The await is over: the next item, or the stage returns; between scoring
\* and summarizing the dedup step drops the items already sent.
CallReturns ==
    /\ cc.stage \in {"impact", "summary"} /\ cc.pc = "await"
    /\ cc.inflight = {}
    /\ IF cc.i < cc.n
       THEN cc' = [cc EXCEPT !.i = @ + 1, !.pc = "start"]
       ELSE IF cc.stage = "impact"
       THEN \E unsent \in 0..cc.n : cc' = Enter("summary", unsent)
       ELSE cc' = Enter("done", 0)
    /\ UNCHANGED << kw, ai, sc, sp, rt, nz, config, world, feed, store, now, run,
                    pc, runVars, prev >>

NextCalls == StartBatch \/ SettleCall \/ ReadBatch \/ StartCall \/ CallReturns

SpecCalls == InitCalls /\ [][NextCalls]_vars

(***************************************************************************)
(* The two normalizers on their own (src/src/fetchers/rssFetcher.js and    *)
(* the web scraper): what fetchRSSFeed makes of the items of a parsed      *)
(* feed and scrapeWebPage of the elements its selector matched.  Titles    *)
(* and urls are sequences of one-character strings.                        *)
(***************************************************************************)
\* A JavaScript string whose content matters, character by character.
Text(chars) == [t |-> "string", c |-> chars]

\* A string that new Date() reads as day d.
DateText(d) == [t |-> "string", c |-> <<"d">>, d |-> d]

\* The truthiness of undefined and of such strings.
TruthyText(v) == v.t = "string" /\ v.c # <<>>

\* a || b
TextOr(a, b) == IF TruthyText(a) THEN a ELSE b

Date(d) == [t |-> "date", d |-> d]

\* new Date(text): an invalid date unless the text reads as a day.
NewDate(v) == IF "d" \in DOMAIN v THEN Date(v.d) ELSE [t |-> "invalid date"]

\* String.prototype.startsWith
startsWith(s, prefix) ==
    Len(s) >= Len(prefix) /\ SubSeq(s, 1, Len(prefix)) = prefix

\* String.prototype.trim, for texts whose only white space is the space.
trim(text) ==
    LET RECURSIVE trimStart(_)
        trimStart(s) ==
            IF s # <<>> /\ Head(s) = " " THEN trimStart(Tail(s)) ELSE s
        RECURSIVE trimEnd(_)
        trimEnd(s) ==
            IF s # <<>> /\ s[Len(s)] = " "
            THEN trimEnd(SubSeq(s, 1, Len(s) - 1))
            ELSE s
    IN trimEnd(trimStart(text))

\* new URL(ref, base).href for a base scheme://host/path and a non-empty
\* reference without scheme, query, fragment or dot segment: a reference
\* that starts with two slashes names a host and is invalid if the host is
\* empty, one that starts with one slash replaces the path of the base,
\* any other replaces the last segment of that path.
Resolve(ref, base) ==
    LET \* The first index from `from` on where s holds c, Len(s) + 1 if none.
        RECURSIVE IndexFrom(_, _, _)
        IndexFrom(s, c, from) ==
            IF from > Len(s) THEN Len(s) + 1
            ELSE IF s[from] = c THEN from
            ELSE IndexFrom(s, c, from + 1)
        \* The path up to and including its last slash.
        RECURSIVE DirOf(_)
        DirOf(p) ==
            IF p = <<>> \/ p[Len(p)] = "/" THEN p
            ELSE DirOf(SubSeq(p, 1, Len(p) - 1))
        schemeEnd == IndexFrom(base, ":", 1)
        scheme == SubSeq(base, 1, schemeEnd - 1)
        pathStart == IndexFrom(base, "/", schemeEnd + 3)
        origin == SubSeq(base, 1, pathStart - 1)
        path == IF pathStart > Len(base) THEN <<"/">>
                ELSE SubSeq(base, pathStart, Len(base))
        hostEnd == IndexFrom(ref, "/", 3)
    IN IF startsWith(ref, <<"/", "/">>)
       THEN IF hostEnd = 3 THEN [ok |-> FALSE]
            ELSE [ok |-> TRUE,
                  href |-> scheme \o <<":">> \o ref
                           \o (IF hostEnd > Len(ref) THEN <<"/">> ELSE <<>>)]
       ELSE IF startsWith(ref, <<"/">>)
       THEN [ok |-> TRUE, href |-> origin \o ref]
       ELSE [ok |-> TRUE, href |-> origin \o DirOf(path) \o ref]

RssSource ==
    [name |-> "rss source",
     url |-> <<"h", "t", "t", "p", ":", "/", "/", "h", "/", "f">>]
WebSource ==
    [name |-> "web source",
     url |-> <<"h", "t", "t", "p", ":", "/", "/", "h", "/", "n", "/", "x">>]

\* What rss-parser can hand over for one item: a title or none, a link
\* that is absolute ("http://h/a") or relative ("/a") or none, a guid that
\* is a url or not ("g") or none, and the other fields all absent or with
\* an empty snippet, a content, a summary and a date.
RssItems ==
    { [title |-> t, link |-> l, guid |-> g,
       contentSnippet |-> r.contentSnippet, content |-> r.content,
       summary |-> r.summary, pubDate |-> r.pubDate] :
        t \in { Undefined, Text(<<>>), Text(<<"t">>) },
        l \in { Undefined,
                Text(<<"h", "t", "t", "p", ":", "/", "/", "h", "/", "a">>),
                Text(<<"/", "a">>) },
        g \in { Undefined, Text(<<"g">>),
                Text(<<"h", "t", "t", "p", ":", "/", "/", "h", "/", "a">>) },
        r \in { [contentSnippet |-> Undefined, content |-> Undefined,
                 summary |-> Undefined, pubDate |-> Undefined],
                [contentSnippet |-> Text(<<>>), content |-> Text(<<"c">>),
                 summary |-> Text(<<"s">>), pubDate |-> DateText(1)] } }

\* What cheerio can find in one matched element: the text of the first
\* heading or link, the href of the first link (none, absolute, relative
\* to the root, relative to the page, relative but starting with "http",
\* or with an empty host), the text of the first summary and of the first
\* date.
WebElements ==
    { [title |-> t, href |-> h, description |-> r.description,
       dateText |-> r.dateText] :
        t \in { <<>>, <<" ">>, <<" ", "t", " ">> },
        h \in { Undefined,
                Text(<<"h", "t", "t", "p", ":", "/", "/", "h", "/", "a">>),
                Text(<<"/", "a">>), Text(<<"a">>),
                Text(<<"h", "t", "t", "p", "a">>), Text(<<"/", "/">>) },
        r \in { [description |-> <<>>, dateText |-> Text(<<>>)],
                [description |-> <<" ", "d">>, dateText |-> DateText(1)] } }

\* fetchRSSFeed: nothing if the request or the parser threw or the feed is
\* empty, else one news item for every item of the feed.
fetchRSSFeed(source, response, today) ==
    IF ~response.ok THEN <<>>
    ELSE IF response.items = <<>> THEN <<>>
    ELSE [i \in 1..Len(response.items) |->
            LET item == response.items[i]
            IN [title |-> TextOr(item.title, Text(<<>>)).c,
                description |->
                   TextOr(item.contentSnippet,
                          TextOr(item.content,
                                 TextOr(item.summary, Text(<<>>)))).c,
                url |-> TextOr(item.link, TextOr(item.guid, Text(<<>>))).c,
                publishedAt |-> IF TruthyText(item.pubDate)
                                THEN NewDate(item.pubDate)
                                ELSE Date(today),
                source |-> source.name,
                type |-> "rss"]]

\* parseDate: null for no text and for a text that is no date.
parseDate(dateText) ==
    IF ~TruthyText(dateText) THEN Null
    ELSE IF NewDate(dateText).t = "date" THEN NewDate(dateText)
    ELSE Null

\* if (title && url): the elements the callback of items.each pushes a
\* news item for.
webKept(element) ==
    /\ trim(element.title) # <<>>
    /\ TextOr(element.href, Text(<<>>)).c # <<>>

\* url.startsWith('http') ? url : new URL(url, source.url).href
fullUrl(source, url) ==
    IF startsWith(url, <<"h", "t", "t", "p">>) THEN [ok |-> TRUE, href |-> url]
    ELSE Resolve(url, source.url)

webElementToNews(source, element, today) ==
    [title |-> trim(element.title),
     description |-> trim(element.description),
     url |-> fullUrl(source, TextOr(element.href, Text(<<>>)).c).href,
     publishedAt |-> IF parseDate(element.dateText) # Null
                     THEN parseDate(element.dateText) ELSE Date(today),
     source |-> source.name,
     type |-> "web"]

RECURSIVE webNews(_, _, _)
webNews(source, elements, today) ==
    IF elements = <<>> THEN <<>>
    ELSE IF webKept(Head(elements))
    THEN <<webElementToNews(source, Head(elements), today)>>
         \o webNews(source, Tail(elements), today)
    ELSE webNews(source, Tail(elements), today)

\* scrapeWebPage: nothing if the request threw, if the selector matched
\* nothing or if new URL threw on one element, else the kept elements.
scrapeWebPage(source, response, today) ==
    IF ~response.ok THEN <<>>
    ELSE IF response.items = <<>> THEN <<>>
    ELSE IF \E i \in 1..Len(response.items) :
               /\ webKept(response.items[i])
               /\ ~fullUrl(source,
                           TextOr(response.items[i].href, Text(<<>>)).c).ok
    THEN <<>>
    ELSE webNews(source, response.items, today)

\* What a source can answer: a failed request, or some items.
InitNormalize ==
    /\ \E origin \in {"rss", "web"} :
          \/ nz = [origin |-> origin,
                   response |-> [ok |-> FALSE, items |-> <<>>],
                   news |-> <<>>, applied |-> FALSE]
          \/ \E n \in 0..MaxRawItems :
                \E items \in [1..n -> IF origin = "rss" THEN RssItems
                                      ELSE WebElements] :
                   nz = [origin |-> origin,
                         response |-> [ok |-> TRUE, items |-> items],
                         news |-> <<>>, applied |-> FALSE]
    /\ config = AllCredentials
    /\ ProbeEnvironment
    /\ kw = NoKw /\ ai = NoAi /\ sc = NoSc /\ sp = NoSp /\ rt = NoRt
    /\ cc = NoCc

ApplyFetchRSSFeed ==
    /\ nz.origin = "rss"
    /\ ~nz.applied
    /\ nz' = [nz EXCEPT !.news = fetchRSSFeed(RssSource, nz.response, now),
                        !.applied = TRUE]
    /\ UNCHANGED << kw, ai, sc, sp, rt, cc, config, world, feed, store, now,
                    run, pc, runVars, prev >>

ApplyScrapeWebPage ==
    /\ nz.origin = "web"
    /\ ~nz.applied
    /\ nz' = [nz EXCEPT !.news = scrapeWebPage(WebSource, nz.response, now),
                        !.applied = TRUE]
    /\ UNCHANGED << kw, ai, sc, sp, rt, cc, config, world, feed, store, now,
                    run, pc, runVars, prev >>

NextNormalize == ApplyFetchRSSFeed \/ ApplyScrapeWebPage

SpecNormalize == InitNormalize /\ [][NextNormalize]_vars

(***************************************************************************)
(* The chunks of the message chunker.                                      *)
(***************************************************************************)
ChunkLengths == { StrLen(sp.messages[k]) : k \in 1..Len(sp.messages) }

NoLineTooLong == \A i \in 1..Len(sp.text) : sp.text[i].len <= sp.maxLength

C22_RejoinedChunksAreTheText ==
    (sp.applied /\ NoLineTooLong) => Flatten(sp.messages) = sp.text

(***************************************************************************)
(* Delivery.                                                               *)
(***************************************************************************)
\* The summaries a message holds text of.
SummariesIn(lines) == { lines[k].of : k \in 1..Len(lines) } \ {0}

\* C23: with two summaries or more, sendNewsSummaries sends the summaries
\* joined by the divider as one message when that text fits the message
\* limit; otherwise every summary goes out on its own, its header first,
\* and no message it sends holds text of two summaries.
Thm_C23_JoinedOrOneByOne ==
    (plan # NoPlan /\ Len(summaries) >= 2) =>
        LET combined == JoinSummaries(summaries)
        IN IF StrLen(combined) <= TELEGRAM_MAX_MESSAGE_LENGTH
           THEN /\ plan.groups = << << combined >> >>
                /\ \A k \in NewsMessages : channel[k].lines = combined
           ELSE /\ Len(plan.groups) = Len(summaries)
                /\ \A i \in 1..Len(plan.groups) :
                      /\ Len(plan.groups[i]) >= 1
                      /\ Len(plan.groups[i][1]) > 2
                      /\ SubSeq(plan.groups[i][1], 1, 2)
                            = << Line(HeaderLen, 0), Line(0, 0) >>
                      /\ \A c \in 1..Len(plan.groups[i]) :
                            SummariesIn(plan.groups[i][c]) = {i}
                /\ \A k \in NewsMessages :
                      Cardinality(SummariesIn(channel[k].lines)) = 1

Wit_C23_JoinedOrOneByOne ==
    /\ pc = "save"
    /\ Len(summaries) = 2
    /\ StrLen(JoinSummaries(summaries)) > TELEGRAM_MAX_MESSAGE_LENGTH
    /\ Len(plan.groups[1]) = 2
    /\ Cardinality(NewsMessages) = 3
    /\ SummariesIn(channel[1].lines) = {1}
    /\ SummariesIn(channel[3].lines) = {2}

\* C24: sendMessageWithRetry makes at most retries (3 by default) attempts
\* for a chunk, makes no attempt after one that succeeded, waits 1000*k ms
\* after the failed attempt k before the next one, and throws only after
\* the last attempt has failed.
Thm_C24_RetriesWithLinearBackoff ==
    (config.token /\ config.chat /\ rt.pc # "none") =>
        /\ rt.attempts <= rt.retries
        /\ rt.retries = DefaultRetries => rt.attempts <= 3
        /\ \A k \in 1..(rt.attempts - 1) : rt.fails[k]
        /\ rt.pc \in {"try", "wait"} => \A k \in 1..rt.attempts : rt.fails[k]
        /\ rt.pc = "returned true" => ~rt.fails[rt.attempts]
        /\ rt.pc = "threw" =>
              /\ rt.attempts = rt.retries
              /\ \A k \in 1..rt.retries : rt.fails[k]
        /\ rt.waits = [k \in 1..Len(rt.waits) |-> 1000 * k]
        /\ rt.pc \in {"try", "wait"} => Len(rt.waits) = rt.attempts
        /\ rt.pc \in {"returned true", "threw"} =>
              Len(rt.waits) = rt.attempts - 1
        /\ rt.pc = "returned false" => rt.retries = 0

Wit_C24_RetriesWithLinearBackoff ==
    /\ config.token /\ config.chat
    /\ rt.retries = DefaultRetries
    /\ rt.pc = "threw"
    /\ rt.attempts = 3
    /\ rt.waits = << 1000, 2000 >>

\* C25: a transport error of a call to an external collaborator stays in
\* the stage that made the call: while the run is in a stage that calls the
\* oracle or the chat, with the credentials in place, no step takes it to
\* the catch block of main(), whatever calls fail.
C25_TransportErrorsStayInTheirStage ==
    [][ (pc \in {"ai", "score", "summarize", "send"}
            /\ config.token /\ config.chat)
          => pc' # "catch" ]_vars

\* The news messages the chat has received, in order of arrival.
NewsLines ==
    LET IsNews(m) == m.text = "news"
        news == SelectSeq(channel, IsNews)
    IN [k \in 1..Len(news) |-> news[k].lines]

MostChunks ==
    IF plan.groups = <<>> THEN 0
    ELSE CHOOSE n \in { Len(plan.groups[g]) : g \in 1..Len(plan.groups) } :
            \A g \in 1..Len(plan.groups) : Len(plan.groups[g]) <= n

\* C26: the chunks of one split message go out one at a time in split
\* order, chunk k+1 only after chunk k was delivered: what the chat has
\* received is, message after message, a leading part of that message's
\* chunks, and the message at work has had exactly the chunks before the
\* current one delivered.  After the hard failure of a chunk none of the
\* later chunks of that message follows.
Thm_C26_ChunksInOrderUntilFailure ==
    plan # NoPlan =>
        \E d \in [1..Len(plan.groups) -> 0..MostChunks] :
            /\ \A g \in 1..Len(plan.groups) : d[g] <= Len(plan.groups[g])
            /\ pc = "send" =>
                  /\ d[gi] = ci - 1
                  /\ \A g \in (gi + 1)..Len(plan.groups) : d[g] = 0
            /\ NewsLines = Flatten([g \in 1..Len(plan.groups) |->
                                       SubSeq(plan.groups[g], 1, d[g])])

Wit_C26_ChunksInOrderUntilFailure ==
    /\ pc = "save"
    /\ plan.mode = "each"
    /\ Len(plan.groups) = 2
    /\ Len(plan.groups[1]) = 2
    /\ Len(plan.groups[2]) = 2
    /\ io.delivery = 3
    /\ NewsLines = plan.groups[2]

(***************************************************************************)
(* Concurrency of the AI stages.                                           *)
(***************************************************************************)
\* The items a stage has made a call for, in the order of the calls.
StartedIn(stage) ==
    LET OfStage(call) == call.stage = stage
        calls == SelectSeq(cc.started, OfStage)
    IN [k \in 1..Len(calls) |-> calls[k].item]

\* C27: at most 5 relevance calls are in flight at any moment and the
\* calls in flight belong to one batch of 5, so no call of a batch starts
\* before every call of the batch before it has settled; in the scoring
\* and summarizing stages at most one call is in flight, and the calls are
\* made for the items in input order.
Thm_C27_BoundedBatchesThenSequential ==
    cc.stage # "none" =>
        /\ Cardinality(cc.inflight) <= 5
        /\ \A a, b \in cc.inflight : (a - 1) \div 5 = (b - 1) \div 5
        /\ cc.stage = "relevance" =>
              /\ \A a \in cc.inflight : (a - 1) \div 5 = (cc.i - 1) \div 5
              /\ StartedIn("impact") = <<>> /\ StartedIn("summary") = <<>>
        /\ cc.stage \in {"impact", "summary"} =>
              /\ Cardinality(cc.inflight) <= 1
              /\ cc.inflight \subseteq {cc.i}
        /\ cc.stage = "impact" => StartedIn("summary") = <<>>
        /\ \A stage \in {"relevance", "impact", "summary"} :
              StartedIn(stage) = [k \in 1..Len(StartedIn(stage)) |-> k]

Wit_C27_BoundedBatchesThenSequential ==
    /\ config.openai
    /\ cc.stage = "summary"
    /\ cc.inflight = {2}
    /\ StartedIn("relevance") = << 1, 2, 3, 4, 5, 6 >>
    /\ StartedIn("impact") = << 1, 2, 3 >>

(***************************************************************************)
(* Access to the ledger store.                                             *)
(***************************************************************************)
\* C28: a run reads the ledger store exactly once, at its start before any
\* oracle call, and writes it at most once, at its end after every delivery
\* attempt; it touches the store at no other time.
C28_LedgerReadFirstWrittenLast ==
    /\ io.ledgerRead <= 1
    /\ (io.oracle > 0 \/ exitCode # Running) => io.ledgerRead = 1
    /\ io.ledgerWrite <= 1
    /\ io.ledgerWrite = 1 => pc \in {"catch", "exited"}

(***************************************************************************)
(* The url as the key of an item.                                          *)
(***************************************************************************)
\* The items of unsentNews of which the chat has received text.
DeliveredItems == UNION { SummariesIn(channel[k].lines) : k \in NewsMessages }

\* C29: the url is the identity of an item: a url is delivered at most
\* once, also when two items fetched in one run carry it, and the ledger
\* file never holds two records with the same url.
C29_OneDeliveryAndOneRecordPerUrl ==
    /\ \A i, j \in DeliveredItems :
          i # j => unsentNews[i].url # unsentNews[j].url
    /\ store.kind = "json" =>
          \A i, j \in 1..Len(store.records) :
             i # j => store.records[i].url # store.records[j].url

(***************************************************************************)
(* What a run without commit leaves of the ledger.                         *)
(***************************************************************************)
\* C30: a run that ends by an early return or by a failure before the
\* commit leaves the records of the ledger file as they were.  Such a run
\* (it has asked for a notification) has not saved, and only the step that
\* saves changes the records of the file: loadSentNews drops the old
\* records from its result, not from the file, and a hard delivery failure
\* of the single or joined message reaches the catch block past
\* saveSentNews.
Thm_C30_NoCommitLeavesLedger ==
    /\ [](notice # <<>> => ~saved.done)
    /\ [][ store'.records # store.records => (~saved.done /\ saved'.done) ]_vars
    /\ [][ (pc = "send" /\ pc' = "catch") => (~saved'.done /\ store' = store) ]_vars

Wit_C30_NoCommitLeavesLedger ==
    /\ pc = "exited"
    /\ exitCode = 1
    /\ plan.mode \in {"single", "joined"}
    /\ NewsMessages = {}
    /\ io.ledgerWrite = 0
    /\ loaded.result = "read"
    /\ loaded.records = <<>>
    /\ Len(store.records) = 2


(***************************************************************************)
(* The news items the normalizers hand over.                               *)
(***************************************************************************)
\* An absolute url: a scheme of the web, "://" and a host.
IsAbsoluteUrl(u) ==
    \E scheme \in { <<"h", "t", "t", "p">>, <<"h", "t", "t", "p", "s">> } :
       /\ startsWith(u, scheme \o <<":", "/", "/">>)
       /\ Len(u) > Len(scheme) + 3
       /\ u[Len(scheme) + 4] # "/"

\* A raw record with neither a title nor anything to take a url from.
LacksTitleAndUrl(origin, raw) ==
    IF origin = "rss"
    THEN ~TruthyText(raw.title) /\ ~TruthyText(raw.link) /\ ~TruthyText(raw.guid)
    ELSE trim(raw.title) = <<>> /\ ~TruthyText(raw.href)

\* C31: every news item a normalizer hands over has a non-empty title and a
\* non-empty absolute url, and a raw record that lacks both title and url
\* is dropped: no item is handed over for it.
C31_NormalizedItemsHaveTitleAndAbsoluteUrl ==
    nz.applied =>
       /\ \A k \in 1..Len(nz.news) :
             /\ nz.news[k].title # <<>>
             /\ nz.news[k].url # <<>>
             /\ IsAbsoluteUrl(nz.news[k].url)
       /\ Len(nz.news) <=
             CountWhere(Len(nz.response.items),
                        LAMBDA k : ~LacksTitleAndUrl(nz.origin,
                                                     nz.response.items[k]))
====
